---------------------------- MODULE Spec2Model ----------------------------
(***************************************************************************)
(* Model of the steganographic codec core of Audio-Steganography-LSB      *)
(* (backend/service, stegoService): frame-coded container parsing, the    *)
(* on-stream frame, LSB-k and parity embedding, keyed start, repeating-key *)
(* XOR, and extraction with auto-detection.                               *)
(* The PCM path (steganographyService) is modelled beside it: WAV chunk    *)
(* parsing, the 56-byte metadata block, sample-wise LSB embedding, the     *)
(* keyed payload start and extraction with detection of the LSB count.     *)
(*                                                                         *)
(* Bytes are integers 0..255, bits are 0/1, byte strings are sequences.   *)
(* Offsets into a buffer are 0-based as in the source; At(data, i) reads  *)
(* data[i] of the source.                                                 *)
(***************************************************************************)
EXTENDS Integers, Sequences, FiniteSets, TLC

VARIABLES pc, carrier, emb, audio, writes, ext, pcm, probe

vars == <<pc, carrier, emb, audio, writes, ext, pcm, probe>>

(***************************************************************************)
(* Bit and byte helpers                                                    *)
(***************************************************************************)
At(data, i) == data[i + 1]

BitAt(b, slot) == (b \div (2 ^ slot)) % 2

XorByte(a, b) ==
    ((BitAt(a, 0) + BitAt(b, 0)) % 2)
  + ((BitAt(a, 1) + BitAt(b, 1)) % 2) * 2
  + ((BitAt(a, 2) + BitAt(b, 2)) % 2) * 4
  + ((BitAt(a, 3) + BitAt(b, 3)) % 2) * 8
  + ((BitAt(a, 4) + BitAt(b, 4)) % 2) * 16
  + ((BitAt(a, 5) + BitAt(b, 5)) % 2) * 32
  + ((BitAt(a, 6) + BitAt(b, 6)) % 2) * 64
  + ((BitAt(a, 7) + BitAt(b, 7)) % 2) * 128

\* cover[pos] |= (1 << slot)
SetBit(b, slot) == IF BitAt(b, slot) = 1 THEN b ELSE b + 2 ^ slot

\* cover[pos] &^= (1 << slot)
ClearBit(b, slot) == IF BitAt(b, slot) = 1 THEN b - 2 ^ slot ELSE b

Min(a, b) == IF a < b THEN a ELSE b

\* binary.Write(&buf, binary.BigEndian, uint16(v))
BigEndian16(v) == << (v \div 256) % 256, v % 256 >>

\* binary.Write(&buf, binary.BigEndian, uint32(v))
BigEndian32(v) ==
    << (v \div 16777216) % 256, (v \div 65536) % 256, (v \div 256) % 256, v % 256 >>

\* binary.BigEndian.Uint16(raw[off : off+2])
Uint16At(raw, off) == At(raw, off) * 256 + At(raw, off + 1)

\* binary.BigEndian.Uint32(raw[off : off+4])
Uint32At(raw, off) ==
    At(raw, off) * 16777216 + At(raw, off + 1) * 65536
  + At(raw, off + 2) * 256 + At(raw, off + 3)

\* raw[from : to] of the source (0-based, to exclusive)
Slice(raw, from, to) == [i \in 1..(to - from) |-> raw[from + i]]

\* MSB-first bits of a byte string
bytesToBits(data) ==
    [i \in 1..(8 * Len(data)) |-> BitAt(data[((i - 1) \div 8) + 1], 7 - ((i - 1) % 8))]

\* bit i (1-based) of the n bits, 0 past their end
BitOrZero(bits, n, i) == IF i <= n THEN bits[i] ELSE 0

\* bytes of the MSB-first bit sequence bits of length n, the last byte
\* zero-padded on the right: byteCount is (n + 7) / 8
bitsToBytesN(bits, n) ==
    [b \in 1..((n + 7) \div 8) |->
          BitOrZero(bits, n, 8 * b - 7) * 128 + BitOrZero(bits, n, 8 * b - 6) * 64
        + BitOrZero(bits, n, 8 * b - 5) * 32  + BitOrZero(bits, n, 8 * b - 4) * 16
        + BitOrZero(bits, n, 8 * b - 3) * 8   + BitOrZero(bits, n, 8 * b - 2) * 4
        + BitOrZero(bits, n, 8 * b - 1) * 2   + BitOrZero(bits, n, 8 * b)]

bitsToBytes(bits) == bitsToBytesN(bits, Len(bits))

(***************************************************************************)
(* Repeating-key XOR                                                       *)
(***************************************************************************)
\* VigenereCipher copying each byte without the XOR
VigenereCipherCopy(data, key, encrypt) == [i \in 1..Len(data) |-> data[i]]

\* VigenereCipher taking the key byte one position further on
VigenereCipherKeyShifted(data, key, encrypt) ==
    IF Len(key) = 0
    THEN data
    ELSE [i \in 1..Len(data) |-> XorByte(data[i], key[(i % Len(key)) + 1])]

\* XOR of each byte of data with the repeating key; data itself for no key
VigenereCipher(data, key, encrypt) ==
    IF Len(key) = 0
    THEN data
    ELSE [i \in 1..Len(data) |-> XorByte(data[i], key[((i - 1) % Len(key)) + 1])]

(***************************************************************************)
(* Container parser                                                        *)
(***************************************************************************)
magicBytes == <<65, 83, 84, 69, 71, 118, 50, 0>>

methodLSB == 0

methodParity == 1

isFrameSyncAt(data, i) ==
    IF i + 1 >= Len(data)
    THEN FALSE
    ELSE At(data, i) = 255 /\ (At(data, i + 1) \div 32) = 7

parseID3v2Size(data) ==
    IF Len(data) < 10
    THEN 0
    ELSE IF SubSeq(data, 1, 3) # <<73, 68, 51>>
    THEN 0
    ELSE 10 + (At(data, 6) % 128) * 2097152 + (At(data, 7) % 128) * 16384
            + (At(data, 8) % 128) * 128 + (At(data, 9) % 128)

\* kbps, [vid][lid][bitrateIdx - 1]
bitrateTable ==
    << << <<32, 64, 96, 128, 160, 192, 224, 256, 288, 320, 352, 384, 416, 448, 0>>,
          <<32, 48, 56, 64, 80, 96, 112, 128, 160, 192, 224, 256, 320, 384, 0>>,
          <<32, 40, 48, 56, 64, 80, 96, 112, 128, 160, 192, 224, 256, 320, 0>> >>,
       << <<32, 48, 56, 64, 80, 96, 112, 128, 144, 160, 176, 192, 224, 256, 0>>,
          <<8, 16, 24, 32, 40, 48, 56, 64, 80, 96, 112, 128, 144, 160, 0>>,
          <<8, 16, 24, 32, 40, 48, 56, 64, 80, 96, 112, 128, 144, 160, 0>> >>,
       << <<32, 48, 56, 64, 80, 96, 112, 128, 144, 160, 176, 192, 224, 256, 0>>,
          <<8, 16, 24, 32, 40, 48, 56, 64, 80, 96, 112, 128, 144, 160, 0>>,
          <<8, 16, 24, 32, 40, 48, 56, 64, 80, 96, 112, 128, 144, 160, 0>> >> >>

\* Hz, [versionBits][sampleRateIdx]
sampleRateTable ==
    << <<11025, 12000, 8000>>,
       <<0, 0, 0>>,
       <<22050, 24000, 16000>>,
       <<44100, 48000, 32000>> >>

\* parseMP3FrameSize without the check that the frame ends within data
parseMP3FrameSizeNoFit(data, pos) ==
    IF Len(data) < pos + 4 THEN 0
    ELSE IF At(data, pos) # 255 \/ (At(data, pos + 1) \div 32) # 7 THEN 0
    ELSE
      LET versionBits   == (At(data, pos + 1) \div 8) % 4
          layerBits     == (At(data, pos + 1) \div 2) % 4
          bitrateIdx    == At(data, pos + 2) \div 16
          sampleRateIdx == (At(data, pos + 2) \div 4) % 4
          padding       == (At(data, pos + 2) \div 2) % 2
          vid == IF versionBits = 3 THEN 0 ELSE IF versionBits = 2 THEN 1 ELSE 2
          lid == IF layerBits = 3 THEN 0 ELSE IF layerBits = 2 THEN 1 ELSE 2
      IN
        IF versionBits = 1 THEN 0
        ELSE IF layerBits = 0 THEN 0
        ELSE IF bitrateIdx = 15 \/ bitrateIdx = 0 THEN 0
        ELSE IF sampleRateIdx = 3 THEN 0
        ELSE
          LET bitrate == bitrateTable[vid + 1][lid + 1][bitrateIdx]
              sr      == sampleRateTable[versionBits + 1][sampleRateIdx + 1]
              frameSize ==
                  IF layerBits = 3
                  THEN (((12 * bitrate * 1000) \div sr) + padding) * 4
                  ELSE ((144 * bitrate * 1000) \div sr) + padding
          IN
            IF bitrate = 0 THEN 0
            ELSE IF sr = 0 THEN 0
            ELSE IF frameSize < 4 THEN 0
            ELSE frameSize

\* frame size in bytes of the header at pos, 0 if the header is invalid or
\* the frame does not fit
parseMP3FrameSize(data, pos) ==
    IF Len(data) < pos + 4 THEN 0
    ELSE IF At(data, pos) # 255 \/ (At(data, pos + 1) \div 32) # 7 THEN 0
    ELSE
      LET versionBits   == (At(data, pos + 1) \div 8) % 4
          layerBits     == (At(data, pos + 1) \div 2) % 4
          bitrateIdx    == At(data, pos + 2) \div 16
          sampleRateIdx == (At(data, pos + 2) \div 4) % 4
          padding       == (At(data, pos + 2) \div 2) % 2
          vid == IF versionBits = 3 THEN 0 ELSE IF versionBits = 2 THEN 1 ELSE 2
          lid == IF layerBits = 3 THEN 0 ELSE IF layerBits = 2 THEN 1 ELSE 2
      IN
        IF versionBits = 1 THEN 0
        ELSE IF layerBits = 0 THEN 0
        ELSE IF bitrateIdx = 15 \/ bitrateIdx = 0 THEN 0
        ELSE IF sampleRateIdx = 3 THEN 0
        ELSE
          LET bitrate == bitrateTable[vid + 1][lid + 1][bitrateIdx]
              sr      == sampleRateTable[versionBits + 1][sampleRateIdx + 1]
              frameSize ==
                  IF layerBits = 3
                  THEN (((12 * bitrate * 1000) \div sr) + padding) * 4
                  ELSE ((144 * bitrate * 1000) \div sr) + padding
          IN
            IF bitrate = 0 THEN 0
            ELSE IF sr = 0 THEN 0
            ELSE IF frameSize < 4 \/ pos + frameSize > Len(data) THEN 0
            ELSE frameSize

RECURSIVE scanFramesSkipHeader(_, _, _)
\* scanFrames resuming 4 bytes behind an invalid header
scanFramesSkipHeader(data, i, acc) ==
    IF ~(i < Len(data) - 4) THEN acc
    ELSE IF ~isFrameSyncAt(data, i) THEN scanFramesSkipHeader(data, i + 1, acc)
    ELSE
      LET size == parseMP3FrameSize(data, i) IN
        IF size <= 4 THEN scanFramesSkipHeader(data, i + 4, acc)
        ELSE scanFramesSkipHeader(data, i + size,
                 acc \o [j \in 1..(Min(i + size, Len(data)) - (i + 4)) |-> i + 4 + (j - 1)])

RECURSIVE scanFramesFromByte2(_, _, _)
\* scanFrames taking the last two header bytes of a frame for payload
scanFramesFromByte2(data, i, acc) ==
    IF ~(i < Len(data) - 4) THEN acc
    ELSE IF ~isFrameSyncAt(data, i) THEN scanFramesFromByte2(data, i + 1, acc)
    ELSE
      LET size == parseMP3FrameSize(data, i) IN
        IF size <= 4 THEN scanFramesFromByte2(data, i + 1, acc)
        ELSE scanFramesFromByte2(data, i + size,
                 acc \o [j \in 1..(Min(i + size, Len(data)) - (i + 2)) |-> i + 2 + (j - 1)])

RECURSIVE scanFrames(_, _, _)
\* the scan loop of collectPayloadIndices from offset i, indices so far in acc
scanFrames(data, i, acc) ==
    IF ~(i < Len(data) - 4) THEN acc
    ELSE IF ~isFrameSyncAt(data, i) THEN scanFrames(data, i + 1, acc)
    ELSE
      LET size == parseMP3FrameSize(data, i) IN
        IF size <= 4 THEN scanFrames(data, i + 1, acc)
        ELSE scanFrames(data, i + size,
                 acc \o [j \in 1..(Min(i + size, Len(data)) - (i + 4)) |-> i + 4 + (j - 1)])

\* 0-based offsets of the bytes between each frame header and the frame end
collectPayloadIndices(data) == scanFrames(data, parseID3v2Size(data), <<>>)

(***************************************************************************)
(* Keyed start.  sha256.Sum256 and math/rand are library code: the model   *)
(* keeps only what the codec relies on, a fixed value per key (keyDigest,  *)
(* standing for the first 8 digest bytes) and a fixed draw in              *)
(* 0..capacityBits-1 per (seed, capacityBits) (randIntn).                  *)
(***************************************************************************)
NoKey == <<>>

Key1 == <<1>>

Key11 == <<1, 1>>

Key2 == <<2>>

\* int64(binary.BigEndian.Uint64(h[:8])) of h = sha256.Sum256([]byte(key))
keyDigest(key) ==
    CASE key = Key1  -> 0
      [] key = Key11 -> 200
      [] key = Key2  -> 1050
      [] OTHER       -> 41

\* rand.New(rand.NewSource(seed)).Intn(n)
randIntn(seed, n) == seed % n

deterministicStartIndex(key, capacityBits) ==
    IF capacityBits = 0
    THEN 0
    ELSE randIntn(keyDigest(key), capacityBits)

(***************************************************************************)
(* Checksum and parity helpers                                             *)
(***************************************************************************)
RECURSIVE weightedSum(_, _)
weightedSum(data, i) ==
    IF i > Len(data) THEN 0 ELSE (i + 2) * data[i] + weightedSum(data, i + 1)

\* first 4 bytes of a content digest of data
calculateChecksum(data) ==
    LET s == weightedSum(data, 1) IN
      << (227 + s) % 256, (176 + 3 * s + Len(data)) % 256,
         (196 + 5 * s + 7 * Len(data)) % 256, (66 + 11 * s) % 256 >>

\* popcount(b) mod 2
extractParityBit(b) ==
    ( BitAt(b, 0) + BitAt(b, 1) + BitAt(b, 2) + BitAt(b, 3)
    + BitAt(b, 4) + BitAt(b, 5) + BitAt(b, 6) + BitAt(b, 7) ) % 2

\* leave b when its parity is bit, else flip its least significant bit
embedParityBit(b, bit) ==
    IF extractParityBit(b) = bit
    THEN b
    ELSE IF BitAt(b, 0) = 1 THEN b - 1 ELSE b + 1

(***************************************************************************)
(* Distortion meter.  The result is a float64: "zero" is 0.0, "inf" is     *)
(* +Inf, and "finite" stands for 10 * log10(32767^2 / mse), kept as the    *)
(* sum of the squared differences and the sample count that make up mse.  *)
(***************************************************************************)
\* int16(binary.LittleEndian.Uint16(buf[i : i+2]))
Int16LEAt(buf, i) ==
    LET u == At(buf, i) + 256 * At(buf, i + 1) IN
      IF u >= 32768 THEN u - 65536 ELSE u

\* the int16 difference a - b, which wraps around
Int16Sub(a, b) ==
    LET d == a - b IN
      IF d > 32767 THEN d - 65536 ELSE IF d < -32768 THEN d + 65536 ELSE d

RECURSIVE sumSquaredDiff(_, _, _)
\* the loop of CalculatePSNR over the samples from byte offset i
sumSquaredDiff(original, modified, i) ==
    IF ~(i < Len(original) - 1) THEN 0
    ELSE
      LET diff == Int16Sub(Int16LEAt(original, i), Int16LEAt(modified, i)) IN
        diff * diff + sumSquaredDiff(original, modified, i + 2)

\* CalculatePSNR without the comparison of the lengths: the loop runs over
\* original and reads past the end of a shorter modified
CalculatePSNRNoLengthCheck(original, modified) ==
    LET sampleCount == Len(original) \div 2 IN
      IF Len(modified) < 2 * sampleCount
      THEN [kind |-> "panic", sumSq |-> 0, sampleCount |-> 0]
      ELSE
        LET mse == sumSquaredDiff(original, modified, 0) IN
          IF sampleCount = 0 THEN [kind |-> "zero", sumSq |-> 0, sampleCount |-> 0]
          ELSE IF mse = 0 THEN [kind |-> "inf", sumSq |-> 0, sampleCount |-> sampleCount]
          ELSE [kind |-> "finite", sumSq |-> mse, sampleCount |-> sampleCount]

CalculatePSNR(original, modified) ==
    IF Len(original) # Len(modified)
    THEN [kind |-> "zero", sumSq |-> 0, sampleCount |-> 0]
    ELSE
      LET sampleCount == Len(original) \div 2
          mse         == sumSquaredDiff(original, modified, 0)
      IN
        IF sampleCount = 0 THEN [kind |-> "zero", sumSq |-> 0, sampleCount |-> 0]
        ELSE IF mse = 0 THEN [kind |-> "inf", sumSq |-> 0, sampleCount |-> sampleCount]
        ELSE [kind |-> "finite", sumSq |-> mse, sampleCount |-> sampleCount]

(***************************************************************************)
(* Capacity                                                                *)
(***************************************************************************)
\* CalculateCapacity dividing the payload byte count by 8 before it
\* multiplies by the number of bits per byte
CalculateCapacityFloorFirst(audioData) ==
    LET totalPayloadBytes == Len(collectPayloadIndices(audioData)) IN
      IF totalPayloadBytes = 0
      THEN [err |-> "ErrInvalidMP3"]
      ELSE [err      |-> "nil",
            OneLSB   |-> (totalPayloadBytes \div 8) * 1,
            TwoLSB   |-> (totalPayloadBytes \div 8) * 2,
            ThreeLSB |-> (totalPayloadBytes \div 8) * 3,
            FourLSB  |-> (totalPayloadBytes \div 8) * 4,
            Parity   |-> totalPayloadBytes \div 8]

\* CalculateCapacity without the check for an empty payload-index vector
CalculateCapacityNoEmptyCheck(audioData) ==
    LET totalPayloadBytes == Len(collectPayloadIndices(audioData)) IN
      [err      |-> "nil",
       OneLSB   |-> (totalPayloadBytes * 1) \div 8,
       TwoLSB   |-> (totalPayloadBytes * 2) \div 8,
       ThreeLSB |-> (totalPayloadBytes * 3) \div 8,
       FourLSB  |-> (totalPayloadBytes * 4) \div 8,
       Parity   |-> totalPayloadBytes \div 8]

CalculateCapacity(audioData) ==
    IF Len(audioData) = 0
    THEN [err |-> "ErrInvalidMP3"]
    ELSE
      LET totalPayloadBytes == Len(collectPayloadIndices(audioData)) IN
        IF totalPayloadBytes = 0
        THEN [err |-> "ErrInvalidMP3"]
        ELSE [err      |-> "nil",
              OneLSB   |-> (totalPayloadBytes * 1) \div 8,
              TwoLSB   |-> (totalPayloadBytes * 2) \div 8,
              ThreeLSB |-> (totalPayloadBytes * 3) \div 8,
              FourLSB  |-> (totalPayloadBytes * 4) \div 8,
              Parity   |-> totalPayloadBytes \div 8]

(***************************************************************************)
(* EmbedMessage                                                            *)
(***************************************************************************)
\* IsValid accepting every non-empty method name
MethodIsValidNonEmpty(m) == m # ""

MethodIsValid(m) == m = "lsb" \/ m = "parity"

\* "secret.bin"
defaultFilename == <<115, 101, 99, 114, 101, 116, 46, 98, 105, 110>>

\* the bytes stored as payload: the secret, or XOR(checksum ++ secret)
secretToStore(req, secretData) ==
    IF req.UseEncryption
    THEN VigenereCipher(calculateChecksum(secretData) \o secretData, req.StegoKey, TRUE)
    ELSE secretData

storedFilename(req) ==
    IF req.SecretFileName = <<>> THEN defaultFilename ELSE req.SecretFileName

frameFlags(req) ==
    (IF req.UseEncryption THEN 1 ELSE 0) + (IF req.UseRandomStart THEN 2 ELSE 0)

\* buildFrame with the secret length field taken from the secret as passed
\* in, not from the stored payload
buildFramePlainLen(req, secretData, metadata) ==
    LET stored == secretToStore(req, secretData)
        fname  == storedFilename(req)
    IN  magicBytes
     \o << IF req.Method = "lsb" THEN methodLSB ELSE methodParity >>
     \o << (IF req.Method = "parity" THEN 1 ELSE req.NLsb) % 256 >>
     \o << frameFlags(req) >>
     \o BigEndian16(Len(fname))
     \o BigEndian32(Len(secretData))
     \o fname
     \o BigEndian16(Len(metadata))
     \o metadata
     \o stored

\* The length fields of the frame for lengths beyond 16 and 32 bits.  A
\* length is <<hi, lo>>, standing for hi * 65536 + lo with lo below 65536
\* (len() is an int of 64 bits).  uint16(len) keeps lo; uint32(len) keeps lo
\* and the 16 low bits of hi.
frameLengthFields(filenameLen, storedLen, metadataLen) ==
    IF filenameLen[1] > 0 THEN [err |-> "ErrFileTooLarge"]
    ELSE IF metadataLen[1] > 0 THEN [err |-> "ErrFileTooLarge"]
    ELSE [err |-> "nil",
          filenameLenField |-> filenameLen[2],
          secretLenField   |-> <<storedLen[1] % 65536, storedLen[2]>>,
          metadataLenField |-> metadataLen[2]]

\* buildFrame with the metadata in front of its length field
buildFrameMetaFirst(req, secretData, metadata) ==
    LET stored == secretToStore(req, secretData)
        fname  == storedFilename(req)
    IN  magicBytes
     \o << IF req.Method = "lsb" THEN methodLSB ELSE methodParity >>
     \o << (IF req.Method = "parity" THEN 1 ELSE req.NLsb) % 256 >>
     \o << frameFlags(req) >>
     \o BigEndian16(Len(fname))
     \o BigEndian32(Len(stored))
     \o fname
     \o metadata
     \o BigEndian16(Len(metadata))
     \o stored

\* [magic(8)][method(1)][nLSB(1)][flags(1)][filenameLen(2)][secretLen(4)]
\* [filename][metadataLen(2)][metadata][secret bytes]
buildFrame(req, secretData, metadata) ==
    LET stored == secretToStore(req, secretData)
        fname  == storedFilename(req)
    IN  magicBytes
     \o << IF req.Method = "lsb" THEN methodLSB ELSE methodParity >>
     \o << (IF req.Method = "parity" THEN 1 ELSE req.NLsb) % 256 >>
     \o << frameFlags(req) >>
     \o BigEndian16(Len(fname))
     \o BigEndian32(Len(stored))
     \o fname
     \o BigEndian16(Len(metadata))
     \o metadata
     \o stored

\* bitPosOf with bitPos starting at 0 whatever the start bit
bitPosOfFromZero(startBit, i, totalCapacityBits) == (i - 1) % totalCapacityBits

\* bitPosOf with the reset going to 1: the loop resumes one bit late
bitPosOfWrapToOne(startBit, i, totalCapacityBits) ==
    IF startBit + (i - 1) < totalCapacityBits
    THEN startBit + (i - 1)
    ELSE startBit + (i - 1) - totalCapacityBits + 1

\* bit position of the loop when it writes frame bit i (1-based): bitPos
\* starts at startBit, goes up by one per bit and is reset to 0 on reaching
\* totalCapacityBits
bitPosOf(startBit, i, totalCapacityBits) == (startBit + (i - 1)) % totalCapacityBits

\* lsbTarget without the payload-index lookup: the byte offset is the
\* position in the bit stream
lsbTargetRawOffset(bitPos, nLsb, payloadIdxs) ==
    << bitPos \div nLsb, bitPos % nLsb >>

\* lsbTarget filling the slots of a byte from slot nLsb - 1 down
lsbTargetSlotsReversed(bitPos, nLsb, payloadIdxs) ==
    << At(payloadIdxs, bitPos \div nLsb), (nLsb - 1) - (bitPos % nLsb) >>

\* lsbTarget writing every bit of a byte into slot 0
lsbTargetSlotZero(bitPos, nLsb, payloadIdxs) ==
    << At(payloadIdxs, bitPos \div nLsb), 0 >>

\* <<byte offset in cover, slot>> the LSB loop writes at bit position bitPos
lsbTarget(bitPos, nLsb, payloadIdxs) ==
    << At(payloadIdxs, bitPos \div nLsb), bitPos % nLsb >>

\* one iteration of the LSB loop on the working copy
lsbWrite(cov, bit, bitPos, nLsb, payloadIdxs) ==
    LET tg == lsbTarget(bitPos, nLsb, payloadIdxs)
        old == At(cov, tg[1])
    IN [cov EXCEPT ![tg[1] + 1] = IF bit = 1 THEN SetBit(old, tg[2])
                                             ELSE ClearBit(old, tg[2])]

RECURSIVE embedLSBLoop(_, _, _, _, _, _, _, _)
\* iterations lo..hi of the LSB loop, in order, on the working copy cov
embedLSBLoop(cov, toEmbedBits, lo, hi, startBit, totalCapacityBits, nLsb, payloadIdxs) ==
    IF lo > hi THEN cov
    ELSE IF lo = hi
    THEN lsbWrite(cov, toEmbedBits[lo], bitPosOf(startBit, lo, totalCapacityBits),
                  nLsb, payloadIdxs)
    ELSE LET mid  == (lo + hi) \div 2
             half == embedLSBLoop(cov, toEmbedBits, lo, mid, startBit,
                                  totalCapacityBits, nLsb, payloadIdxs)
         IN \* the test holds always: it has half computed before the second call
            IF Len(half) >= 0
            THEN embedLSBLoop(half, toEmbedBits, mid + 1, hi, startBit,
                              totalCapacityBits, nLsb, payloadIdxs)
            ELSE half

\* parityWrite taking the bit position for the byte offset in the cover
parityWriteRawOffset(cov, bit, bitPos, payloadIdxs) ==
    [cov EXCEPT ![bitPos + 1] = embedParityBit(At(cov, bitPos), bit)]

\* one iteration of the parity loop on the working copy
parityWrite(cov, bit, bitPos, payloadIdxs) ==
    LET coverBytePos == At(payloadIdxs, bitPos) IN
      [cov EXCEPT ![coverBytePos + 1] = embedParityBit(At(cov, coverBytePos), bit)]

RECURSIVE embedParityLoop(_, _, _, _, _, _, _)
\* iterations lo..hi of the parity loop, in order, on the working copy cov
embedParityLoop(cov, toEmbedBits, lo, hi, startBit, totalCapacityBits, payloadIdxs) ==
    IF lo > hi THEN cov
    ELSE IF lo = hi
    THEN parityWrite(cov, toEmbedBits[lo], bitPosOf(startBit, lo, totalCapacityBits),
                     payloadIdxs)
    ELSE LET mid  == (lo + hi) \div 2
             half == embedParityLoop(cov, toEmbedBits, lo, mid, startBit,
                                     totalCapacityBits, payloadIdxs)
         IN \* the test holds always: it has half computed before the second call
            IF Len(half) >= 0
            THEN embedParityLoop(half, toEmbedBits, mid + 1, hi, startBit,
                                 totalCapacityBits, payloadIdxs)
            ELSE half

\* the <<byte offset, slot>> written by each iteration of the embedding
\* loop, in order
embedWrites(method, nBits, startBit, totalCapacityBits, nLsb, payloadIdxs) ==
    [i \in 1..nBits |->
        IF method = "lsb"
        THEN lsbTarget(bitPosOf(startBit, i, totalCapacityBits), nLsb, payloadIdxs)
        ELSE << At(payloadIdxs, bitPosOf(startBit, i, totalCapacityBits)), 0 >>]

\* exceedsCapacity rejecting a frame that fills the capacity exactly
exceedsCapacityOrEqual(frameBits, totalCapacityBits) == frameBits >= totalCapacityBits

\* the frame does not fit: len(toEmbedBits) > totalCapacityBits
exceedsCapacity(frameBits, totalCapacityBits) == frameBits > totalCapacityBits

embedFail(e) ==
    [err |-> e, out |-> <<>>, writes |-> <<>>, startBit |-> 0,
     frameBits |-> 0, capacityBits |-> 0]

\* req: CoverAudio, SecretFileName, StegoKey, Method, NLsb, UseEncryption,
\* UseRandomStart.  Result: err ("nil" on success), out (the stego bytes),
\* and what the call did: the writes in order, the start bit, the frame
\* bit length and the capacity in bits.
EmbedMessage(req, secretData, metadata) ==
    IF ~MethodIsValid(req.Method) THEN embedFail("ErrInvalidMethod")
    ELSE IF req.Method = "lsb" /\ (req.NLsb < 1 \/ req.NLsb > 4) THEN embedFail("ErrInvalidLSB")
    ELSE IF req.UseEncryption /\ req.StegoKey = <<>> THEN embedFail("ErrInvalidStegoKey")
    ELSE IF Len(storedFilename(req)) > 65535 THEN embedFail("ErrFileTooLarge")
    ELSE IF Len(metadata) > 65535 THEN embedFail("ErrFileTooLarge")
    ELSE
      LET toEmbedBytes == buildFrame(req, secretData, metadata)
          toEmbedBits  == bytesToBits(toEmbedBytes)
          payloadIdxs  == collectPayloadIndices(req.CoverAudio)
          totalCapacityBits ==
              IF req.Method = "lsb" THEN Len(payloadIdxs) * req.NLsb
                                    ELSE Len(payloadIdxs)
          startBit ==
              IF req.UseRandomStart
              THEN deterministicStartIndex(req.StegoKey, totalCapacityBits)
              ELSE 0
          done ==
              IF req.Method = "lsb"
              THEN embedLSBLoop(req.CoverAudio, toEmbedBits, 1, Len(toEmbedBits),
                                startBit, totalCapacityBits, req.NLsb, payloadIdxs)
              ELSE embedParityLoop(req.CoverAudio, toEmbedBits, 1, Len(toEmbedBits),
                                   startBit, totalCapacityBits, payloadIdxs)
      IN
        IF Len(payloadIdxs) = 0 THEN embedFail("ErrInvalidMP3")
        ELSE IF exceedsCapacity(Len(toEmbedBits), totalCapacityBits)
        THEN [embedFail("ErrInsufficientCapacity") EXCEPT
                 !.frameBits = Len(toEmbedBits), !.capacityBits = totalCapacityBits]
        ELSE IF req.UseRandomStart /\ req.StegoKey = <<>> THEN embedFail("ErrInvalidStegoKey")
        ELSE [err |-> "nil", out |-> done,
              writes |-> embedWrites(req.Method, Len(toEmbedBits), startBit,
                                     totalCapacityBits, req.NLsb, payloadIdxs),
              startBit |-> startBit, frameBits |-> Len(toEmbedBits),
              capacityBits |-> totalCapacityBits]

\* the bytes of req.CoverAudio after a call with result r, were the writes
\* of the loops made to req.CoverAudio itself (cover := req.CoverAudio)
callerBufferShared(coverAudio, r) ==
    IF r.err = "nil" THEN r.out ELSE coverAudio

\* the bytes of req.CoverAudio after a call with result r: cover is a new
\* buffer with a copy of the bytes, the only one written to
callerBufferAfter(coverAudio, r) == coverAudio

(***************************************************************************)
(* ExtractMessage                                                          *)
(***************************************************************************)
extractFail(e) ==
    [err |-> e, data |-> <<>>, filename |-> <<>>, isNil |-> TRUE,
     method |-> -1, n |-> 0, start |-> -1]

\* rot of the source: the len(bits) = totalBits bits rotated so that bit
\* start becomes bit 0
rotateBits(bits, totalBits, start) ==
    [i \in 1..totalBits |-> bits[((start + (i - 1)) % totalBits) + 1]]

\* raw[lo : hi] is within a slice of length len; the slice expression
\* panics otherwise
sliceInRange(lo, hi, len) == 0 <= lo /\ lo <= hi /\ hi <= len

\* headerParses without the check that the metadata and the payload are
\* within raw
headerParsesNoPayloadCheck(raw, rawLen, expectedMethod, expectedN) ==
    /\ rawLen >= 17
    /\ \A i \in 0..7 : At(raw, i) = At(magicBytes, i)
    /\ At(raw, 8) = expectedMethod
    /\ At(raw, 9) = expectedN
    /\ LET filenameLen == Uint16At(raw, 11)
           headerTotal == 8 + 1 + 1 + 1 + 2 + 4 + filenameLen + 2
       IN /\ rawLen >= headerTotal
          /\ (filenameLen > 0 => rawLen >= 17 + filenameLen + 2)

\* the frame header of raw (rawLen bytes) passes the checks made before the
\* payload is read: 17 bytes, magic, method and n as expected, lengths within
\* raw
headerParses(raw, rawLen, expectedMethod, expectedN) ==
    /\ rawLen >= 17
    /\ \A i \in 0..7 : At(raw, i) = At(magicBytes, i)
    /\ At(raw, 8) = expectedMethod
    /\ At(raw, 9) = expectedN
    /\ LET filenameLen == Uint16At(raw, 11)
           secretLen   == Uint32At(raw, 13)
           headerTotal == 8 + 1 + 1 + 1 + 2 + 4 + filenameLen + 2
       IN /\ rawLen >= headerTotal
          /\ (filenameLen > 0 => rawLen >= 17 + filenameLen + 2)
          /\ rawLen >= 17 + filenameLen + 2 + Uint16At(raw, 17 + filenameLen) + secretLen

\* the body of the loop over tryStarts for one start: "continue", or the
\* value returned.  bits holds totalBits bits at both call sites, so rot has
\* totalBits bits and raw has (totalBits + 7) / 8 bytes.
tryStart(key, bits, totalBits, start, expectedMethod, expectedN) ==
    LET raw    == bitsToBytesN(rotateBits(bits, totalBits, start), totalBits)
        rawLen == (totalBits + 7) \div 8
    IN
      IF ~headerParses(raw, rawLen, expectedMethod, expectedN)
      THEN [kind |-> "continue"]
      ELSE
        LET flags       == At(raw, 10)
            filenameLen == Uint16At(raw, 11)
            secretLen   == Uint32At(raw, 13)
            filename    == Slice(raw, 17, 17 + filenameLen)
            metaLenOff  == 17 + filenameLen
            metadataLen == Uint16At(raw, metaLenOff)
            secretStart == metaLenOff + 2 + metadataLen
            secretBytes == Slice(raw, secretStart, secretStart + secretLen)
            encFlag     == flags % 2 = 1
            decrypted   == VigenereCipher(secretBytes, key, FALSE)
            actualData  == Slice(decrypted, 4, Len(decrypted))
            ok(d)       == [kind |-> "return", err |-> "nil", data |-> d,
                            filename |-> filename, isNil |-> FALSE,
                            method |-> expectedMethod, n |-> expectedN, start |-> start]
            bad         == [kind |-> "return"] @@ extractFail("ErrInvalidStegoKey")
        IN
          IF ~( /\ sliceInRange(17, 17 + filenameLen, rawLen)
                /\ sliceInRange(metaLenOff, metaLenOff + 2, rawLen)
                /\ sliceInRange(secretStart, secretStart + secretLen, rawLen) )
          THEN [kind |-> "return"] @@ extractFail("panic")
          ELSE IF ~encFlag THEN ok(secretBytes)
          ELSE IF key = <<>> THEN bad
          ELSE IF Len(decrypted) < 4 THEN bad
          ELSE IF Slice(decrypted, 0, 4) # calculateChecksum(actualData) THEN bad
          ELSE ok(actualData)

RECURSIVE tryStartsFrom(_, _, _, _, _, _, _)
\* the loop over tryStarts from its i-th element on
tryStartsFrom(key, bits, totalBits, starts, i, expectedMethod, expectedN) ==
    IF i > Len(starts) THEN extractFail("ErrExtractionFailed")
    ELSE
      LET r == tryStart(key, bits, totalBits, starts[i], expectedMethod, expectedN) IN
        IF r.kind = "continue"
        THEN tryStartsFrom(key, bits, totalBits, starts, i + 1, expectedMethod, expectedN)
        ELSE [f \in DOMAIN r \ {"kind"} |-> r[f]]

\* the start offsets tried: 0, then the keyed start when a key is given
tryStarts(key, totalBits) ==
    IF key # <<>>
    THEN <<0, deterministicStartIndex(key, totalBits)>>
    ELSE <<0>>

tryExtractFromBits(req, bits, totalBits, expectedMethod, expectedN) ==
    tryStartsFrom(req.StegoKey, bits, totalBits, tryStarts(req.StegoKey, totalBits), 1,
                  expectedMethod, expectedN)

\* the linear bit sequence in LSB order, slots 0..n-1 of each payload byte
lsbBits(cover, payloadIdxs, n) ==
    [t \in 1..(Len(payloadIdxs) * n) |->
        BitAt(At(cover, At(payloadIdxs, (t - 1) \div n)), (t - 1) % n)]

RECURSIVE extractLSBFrom(_, _, _, _)
\* the loop of extractLSBMethod over n, from n on
extractLSBFrom(req, cover, payloadIdxs, n) ==
    IF n > 4 THEN extractFail("ErrExtractionFailed")
    ELSE
      LET r == tryExtractFromBits(req, lsbBits(cover, payloadIdxs, n),
                                  Len(payloadIdxs) * n, methodLSB, n)
      IN IF r.err \in {"nil", "panic"} THEN r
         ELSE extractLSBFrom(req, cover, payloadIdxs, n + 1)

extractLSBMethod(req, cover, payloadIdxs) == extractLSBFrom(req, cover, payloadIdxs, 1)

\* the linear bit sequence of the parity method, one bit per payload byte
parityBits(cover, payloadIdxs) ==
    [t \in 1..Len(payloadIdxs) |-> extractParityBit(At(cover, At(payloadIdxs, t - 1)))]

extractParityMethod(req, cover, payloadIdxs) ==
    tryExtractFromBits(req, parityBits(cover, payloadIdxs), Len(payloadIdxs),
                       methodParity, 1)

RECURSIVE extractMethodsFrom(_, _, _, _, _)
\* the loop of ExtractMessage over methodsToTry, from its i-th element on.
\* Its test err == nil && data != nil is a test of err: data is a slice of
\* raw or of the cipher's output, never nil, when err is nil (isNil FALSE)
extractMethodsFrom(req, cover, payloadIdxs, methodsToTry, i) ==
    IF i > Len(methodsToTry) THEN extractFail("ErrExtractionFailed")
    ELSE
      LET r == IF methodsToTry[i] = methodLSB
               THEN extractLSBMethod(req, cover, payloadIdxs)
               ELSE extractParityMethod(req, cover, payloadIdxs)
      IN IF r.err \in {"nil", "panic"}
         THEN r
         ELSE extractMethodsFrom(req, cover, payloadIdxs, methodsToTry, i + 1)

\* methodsToTry taking the hint as advice only
methodsToTryAll(req) == <<methodLSB, methodParity>>

\* both methods if none is specified, else the specified method
methodsToTry(req) ==
    IF MethodIsValid(req.Method)
    THEN IF req.Method = "lsb" THEN <<methodLSB>> ELSE <<methodParity>>
    ELSE <<methodLSB, methodParity>>

\* req: StegoKey, Method (the hint; anything but "lsb"/"parity" is no hint).
\* Result: err, data, filename, and the accepted candidate (method, n, start).
ExtractMessage(req, audioData) ==
    IF Len(audioData) = 0 THEN extractFail("ErrInvalidMP3")
    ELSE
      LET payloadIdxs == collectPayloadIndices(audioData)
      IN IF Len(payloadIdxs) = 0 THEN extractFail("ErrInvalidMP3")
         ELSE extractMethodsFrom(req, audioData, payloadIdxs, methodsToTry(req), 1)

(***************************************************************************)
(* PCM path (steganographyService): input in a RIFF/WAVE container, a      *)
(* fixed 56-byte metadata block at sample 0, the payload behind it or at a *)
(* keyed sample.  The service first hands its input to the MP3 decoder of  *)
(* a library; the model covers the inputs that decoder rejects.            *)
(***************************************************************************)
\* binary.LittleEndian.Uint32(wavData[off : off+4])
Uint32LEAt(raw, off) ==
    At(raw, off) + At(raw, off + 1) * 256
  + At(raw, off + 2) * 65536 + At(raw, off + 3) * 16777216

\* "RIFF", "WAVE", "data"
tagRIFF == <<82, 73, 70, 70>>

tagWAVE == <<87, 65, 86, 69>>

tagData == <<100, 97, 116, 97>>

RECURSIVE wavChunksFrom(_, _)
\* the chunk loop of parseWAVHeader from offset on
wavChunksFrom(wavData, offset) ==
    IF offset + 8 > Len(wavData)
    THEN [err |-> "WAV file does not contain a data chunk"]
    ELSE
      LET chunkSize  == Uint32LEAt(wavData, offset + 4)
          nextOffset == offset + 8 + chunkSize + (IF chunkSize % 2 = 1 THEN 1 ELSE 0)
      IN IF Slice(wavData, offset, offset + 4) = tagData
         THEN [err |-> "nil", dataOffset |-> offset + 8, dataSize |-> chunkSize]
         ELSE IF nextOffset <= offset
         THEN [err |-> "invalid WAV file: infinite loop detected in chunk parsing"]
         ELSE wavChunksFrom(wavData, nextOffset)

parseWAVHeader(wavData) ==
    IF Len(wavData) < 44 THEN [err |-> "WAV file too short"]
    ELSE IF Slice(wavData, 0, 4) # tagRIFF
    THEN [err |-> "invalid WAV file: missing RIFF header"]
    ELSE IF Slice(wavData, 8, 12) # tagWAVE
    THEN [err |-> "invalid WAV file: not WAVE format"]
    ELSE wavChunksFrom(wavData, 12)

\* steganographyService.CalculateCapacity on an input the MP3 decoder
\* rejects.  spare is cap(audioData) - len(audioData), the room the buffer
\* has behind its length: the slice expression
\* audioData[dataOffset : dataOffset+dataSize] panics when the data chunk
\* reaches past the capacity, and yields dataSize bytes, the last of them
\* from behind the input, when it reaches past the length only
PcmCalculateCapacity(audioData, spare) ==
    LET h == parseWAVHeader(audioData) IN
      IF h.err # "nil" THEN [err |-> "unsupported audio format"]
      ELSE IF Len(audioData) <= h.dataOffset
      THEN [err |-> "WAV file is too small or corrupted"]
      ELSE IF h.dataOffset + h.dataSize > Len(audioData) + spare
      THEN [err |-> "panic: slice bounds out of range"]
      ELSE
        LET totalSamples == h.dataSize \div 2 IN
          IF totalSamples = 0 THEN [err |-> "no audio samples found in the file"]
          ELSE [err      |-> "nil",
                OneLSB   |-> (totalSamples * 1) \div 8,
                TwoLSB   |-> (totalSamples * 2) \div 8,
                ThreeLSB |-> (totalSamples * 3) \div 8,
                FourLSB  |-> (totalSamples * 4) \div 8]

samplesNeeded(totalBits, nLsb) ==
    IF nLsb <= 0 THEN 0 ELSE (totalBits + nLsb - 1) \div nLsb

RECURSIVE fnv32aFrom(_, _, _, _)
\* FNV-1a, 32 bits, on the hash as two 16-bit halves hi and lo: for each
\* byte, hash ^= byte; hash *= 16777619 (mod 2^32), 16777619 being
\* 2^24 + 403
fnv32aFrom(hi, lo, seed, i) ==
    IF i > Len(seed) THEN <<hi, lo>>
    ELSE
      LET x    == (lo - (lo % 256)) + XorByte(lo % 256, seed[i])
          low  == x * 403
          high == hi * 403 + (low \div 65536) + (x % 256) * 256
      IN fnv32aFrom(high % 65536, low % 65536, seed, i + 1)

\* hasher.Sum32() of fnv.New32a() after Write(seed), as <<hi, lo>>; the
\* offset basis 2166136261 is 33052 * 65536 + 40389
fnv32a(seed) == fnv32aFrom(33052, 40389, seed, 1)

\* hv % m for hv given as <<hi, lo>>, m < 2^15
mod32(hv, m) == ((hv[1] % m) * (65536 % m) + hv[2]) % m

generatePayloadStart(seed, totalSamples, reservedSamples, payloadSamples) ==
    LET available == totalSamples - reservedSamples - payloadSamples IN
      IF available < 0 THEN -1
      ELSE IF available = 0 THEN reservedSamples
      ELSE reservedSamples + mod32(fnv32a(seed), available + 1)

RECURSIVE sampleWithBits(_, _, _, _, _)
\* the inner loop of embedBitsIntoSamples on one 16-bit sample: bit slots
\* lsbPos..nLsb-1 take bits[bitIndex], bits[bitIndex+1], .. while bits last
\* (bitIndex is 0-based)
sampleWithBits(sample, bits, bitIndex, lsbPos, nLsb) ==
    IF lsbPos >= nLsb \/ bitIndex >= Len(bits) THEN sample
    ELSE sampleWithBits(IF At(bits, bitIndex) = 1
                        THEN SetBit(ClearBit(sample, lsbPos), lsbPos)
                        ELSE ClearBit(sample, lsbPos),
                        bits, bitIndex + 1, lsbPos + 1, nLsb)

\* pcmData after embedBitsIntoSamples, or its error: sample startPos + j
\* takes bits j*nLsb .. j*nLsb + nLsb - 1 and is written back little-endian
embedBitsIntoSamples(pcmData, bits, startPos, nLsb) ==
    LET totalSamples == Len(pcmData) \div 2 IN
      IF Len(bits) > (totalSamples - startPos) * nLsb
      THEN [err |-> "insufficient capacity", pcm |-> pcmData]
      ELSE
        [err |-> "nil",
         pcm |-> [i \in 1..Len(pcmData) |->
                    LET sampleIndex == (i - 1) \div 2
                        bitIndex    == (sampleIndex - startPos) * nLsb
                    IN IF /\ sampleIndex >= startPos
                          /\ sampleIndex < totalSamples
                          /\ bitIndex < Len(bits)
                       THEN LET sample == At(pcmData, 2 * sampleIndex)
                                          + 256 * At(pcmData, 2 * sampleIndex + 1)
                                new    == sampleWithBits(sample, bits, bitIndex, 0, nLsb)
                            IN IF (i - 1) % 2 = 0 THEN new % 256 ELSE new \div 256
                       ELSE pcmData[i]]]

\* the totalBits bits extractBitsFromSamples reads from sample startPos on,
\* nLsb per sample; bits past the last sample stay 0
extractBitsFromSamples(pcmData, startPos, nLsb, totalBits) ==
    [t \in 1..totalBits |->
        LET sampleIndex == startPos + (t - 1) \div nLsb IN
          IF sampleIndex < Len(pcmData) \div 2
          THEN BitAt(At(pcmData, 2 * sampleIndex) + 256 * At(pcmData, 2 * sampleIndex + 1),
                     (t - 1) % nLsb)
          ELSE 0]

\* size of the metadata block
metadataSize == 56

\* [filename(32, zero-padded)][file size(4, big-endian)][flags(1)][nLSB(1)]
\* [zero(18)]
CreateMetadata(filename, fileSize, useEncryption, useRandomStart, nLsb) ==
    [i \in 1..metadataSize |->
        IF i <= 32 THEN (IF i <= Len(filename) THEN filename[i] ELSE 0)
        ELSE IF i <= 36 THEN BigEndian32(fileSize)[i - 32]
        ELSE IF i = 37 THEN (IF useEncryption THEN 1 ELSE 0)
                            + (IF useRandomStart THEN 2 ELSE 0)
        ELSE IF i = 38 THEN nLsb % 256
        ELSE 0]

\* int(binary.BigEndian.Uint32(raw[off : off+4])), with 2^30 standing for
\* every value from 2^30 on: the code only compares the value with smaller
\* numbers
Uint32Capped(raw, off) ==
    IF At(raw, off) >= 64 THEN 1073741824 ELSE Uint32At(raw, off)

\* bytes strings.TrimSpace removes from the ends of an ASCII string
asciiSpace == {9, 10, 11, 12, 13, 32}

RECURSIVE trimSpace(_)
trimSpace(str) ==
    IF str = <<>> THEN str
    ELSE IF str[1] \in asciiSpace THEN trimSpace(Tail(str))
    ELSE IF str[Len(str)] \in asciiSpace THEN trimSpace(SubSeq(str, 1, Len(str) - 1))
    ELSE str

\* number of bytes of the 32-byte filename field before its first zero byte
RECURSIVE nameLength(_, _)
nameLength(metadata, i) ==
    IF i >= 32 \/ At(metadata, i) = 0 THEN i ELSE nameLength(metadata, i + 1)

parseMetadata(metadata) ==
    IF Len(metadata) < 38 THEN [err |-> "metadata too short"]
    ELSE [err            |-> "nil",
          filename       |-> trimSpace(Slice(metadata, 0, nameLength(metadata, 0))),
          fileSize       |-> Uint32Capped(metadata, 32),
          useEncryption  |-> BitAt(At(metadata, 36), 0) = 1,
          useRandomStart |-> BitAt(At(metadata, 36), 1) = 1]

RECURSIVE hasExtensionFrom(_, _)
\* the loop of hasExtension from index i (0-based) down
hasExtensionFrom(filename, i) ==
    IF i < 0 THEN FALSE
    ELSE IF At(filename, i) = 46 THEN i < Len(filename) - 1
    ELSE IF At(filename, i) = 47 \/ At(filename, i) = 92 THEN FALSE
    ELSE hasExtensionFrom(filename, i - 1)

hasExtension(filename) == hasExtensionFrom(filename, Len(filename) - 1)

\* data begins with the bytes of sig
startsWith(data, sig) ==
    Len(data) >= Len(sig) /\ \A i \in 1..Len(sig) : data[i] = sig[i]

\* more than 80% of the first 512 bytes are printable ASCII, tab, LF or CR
isLikelyText(data) ==
    LET sampleSize == Min(Len(data), 512)
        textChars  == Cardinality({i \in 1..sampleSize :
                          \/ (data[i] >= 32 /\ data[i] <= 126)
                          \/ data[i] \in {9, 10, 13}})
    IN Len(data) > 0 /\ textChars * 10 > sampleSize * 8

\* ".bin", ".txt", ".jpg", ".bmp", ".pdf", ".zip", ".7z"
extBin == <<46, 98, 105, 110>>

extTxt == <<46, 116, 120, 116>>

extJpg == <<46, 106, 112, 103>>

extBmp == <<46, 98, 109, 112>>

extPdf == <<46, 112, 100, 102>>

extZip == <<46, 122, 105, 112>>

ext7z == <<46, 55, 122>>

\* The extension detectFileExtension returns for data shorter than 100
\* bytes; <<>> is "".  The cases run in the order of the switch.  Data of 4
\* or 5 bytes that is not a JPEG reaches data[:6] of the GIF case, and ZIP
\* data longer than 30 bytes reaches data[:100]; both are out of range for a
\* slice of that capacity: the result is then <<-1>>, standing for the
\* panic.
detectFileExtension(data) ==
    IF Len(data) < 4 THEN <<>>
    ELSE IF data[1] = 255 /\ data[2] = 216 THEN extJpg
    ELSE IF startsWith(data, <<137, 80, 78, 71, 13, 10, 26, 10>>)
    THEN <<46, 112, 110, 103>>
    ELSE IF Len(data) < 6 THEN <<-1>>
    ELSE IF startsWith(data, <<71, 73, 70, 56, 55, 97>>)
            \/ startsWith(data, <<71, 73, 70, 56, 57, 97>>)
    THEN <<46, 103, 105, 102>>
    ELSE IF startsWith(data, <<66, 77>>) THEN extBmp
    ELSE IF startsWith(data, tagRIFF)
    THEN IF Len(data) >= 12 /\ Slice(data, 8, 12) = tagWAVE
         THEN <<46, 119, 97, 118>>
         ELSE <<46, 119, 101, 98, 112>>
    ELSE IF startsWith(data, <<37, 80, 68, 70>>) THEN extPdf
    ELSE IF \/ (Len(data) >= 8 /\ startsWith(data, <<80, 75, 3, 4>>))
            \/ startsWith(data, <<80, 75, 5, 6>>)
            \/ startsWith(data, <<80, 75, 7, 8>>)
    THEN IF Len(data) > 30 THEN <<-1>> ELSE extZip
    ELSE IF Len(data) >= 8 /\ startsWith(data, <<208, 207, 17, 224>>)
    THEN <<46, 100, 111, 99>>
    ELSE IF startsWith(data, <<82, 97, 114, 33, 26, 7>>) THEN <<46, 114, 97, 114>>
    ELSE IF startsWith(data, <<55, 122, 188, 175>>) THEN ext7z
    ELSE IF startsWith(data, <<239, 187, 191>>) THEN extTxt
    ELSE IF isLikelyText(data) THEN extTxt
    ELSE <<>>

\* "extracted_secret"
extractedSecret ==
    <<101, 120, 116, 114, 97, 99, 116, 101, 100, 95, 115, 101, 99, 114, 101, 116>>

\* the filename ExtractMessage returns for the request's OutputFilename, the
\* filename of the metadata and the extracted bytes
outputFilenameOf(outputFilename, filename, secretData) ==
    IF outputFilename # <<>> THEN outputFilename
    ELSE IF filename # <<>>
    THEN IF hasExtension(filename) THEN filename
         ELSE filename \o detectFileExtension(secretData)
    ELSE IF detectFileExtension(secretData) # <<>>
    THEN extractedSecret \o detectFileExtension(secretData)
    ELSE extractedSecret \o extBin

pcmEmbedFail(e) == [err |-> e, out |-> <<>>, startPos |-> 0]

\* steganographyService.EmbedMessage on an input the MP3 decoder rejects.
\* req: CoverAudio, StegoKey, NLsb, UseEncryption, UseRandomStart.
\* Result: err ("nil" on success), out (the stego bytes), startPos (the
\* sample the payload starts at).
PcmEmbedMessage(req, secretData, metadata) ==
    LET h == parseWAVHeader(req.CoverAudio) IN
      IF h.err # "nil" THEN pcmEmbedFail("unsupported audio format")
      ELSE IF h.dataOffset + h.dataSize > Len(req.CoverAudio)
      THEN pcmEmbedFail("invalid WAV structure: data chunk out of bounds")
      ELSE
        LET end_        == h.dataOffset + h.dataSize
            pcmData     == Slice(req.CoverAudio, h.dataOffset, end_)
            capacityResult == PcmCalculateCapacity(req.CoverAudio, 0)
            maxCapacity ==
                CASE req.NLsb = 1 -> capacityResult.OneLSB
                  [] req.NLsb = 2 -> capacityResult.TwoLSB
                  [] req.NLsb = 3 -> capacityResult.ThreeLSB
                  [] OTHER        -> capacityResult.FourLSB
            dataToEmbed ==
                IF req.UseEncryption /\ req.StegoKey # <<>>
                THEN VigenereCipher(secretData, req.StegoKey, TRUE)
                ELSE secretData
            metadataBits   == bytesToBits(metadata)
            payloadBits    == bytesToBits(dataToEmbed)
            totalSamples   == Len(pcmData) \div 2
            metaSamples    == samplesNeeded(Len(metadataBits), req.NLsb)
            payloadSamples == samplesNeeded(Len(payloadBits), req.NLsb)
            withMeta       == embedBitsIntoSamples(pcmData, metadataBits, 0, req.NLsb)
            pos            == generatePayloadStart(req.StegoKey, totalSamples,
                                                   metaSamples, payloadSamples)
            keyed          == req.UseRandomStart /\ req.StegoKey # <<>>
            startPos       == IF keyed THEN pos ELSE metaSamples
            withPayload    == embedBitsIntoSamples(withMeta.pcm, payloadBits, startPos,
                                                   req.NLsb)
        IN
          IF capacityResult.err # "nil" THEN pcmEmbedFail("failed to calculate capacity")
          ELSE IF req.NLsb \notin 1..4 THEN pcmEmbedFail("invalid nLSB value")
          ELSE IF Len(metadata) + Len(secretData) > maxCapacity
          THEN pcmEmbedFail("insufficient capacity")
          ELSE IF metaSamples + payloadSamples > totalSamples
          THEN pcmEmbedFail("insufficient capacity")
          ELSE IF withMeta.err # "nil" THEN pcmEmbedFail(withMeta.err)
          ELSE IF keyed /\ pos < 0
          THEN pcmEmbedFail("insufficient capacity for randomized payload placement")
          ELSE IF withPayload.err # "nil" THEN pcmEmbedFail(withPayload.err)
          ELSE [err |-> "nil",
                out |-> [i \in 1..Len(req.CoverAudio) |->
                           IF i > h.dataOffset /\ i <= end_
                           THEN withPayload.pcm[i - h.dataOffset]
                           ELSE req.CoverAudio[i]],
                startPos |-> startPos]

pcmExtractFail(e) == [err |-> e, data |-> <<>>, filename |-> <<>>, nLsb |-> 0]

\* what the detection loop of ExtractMessage makes of one tryNLsb: the
\* parsed metadata when it is taken, else [err |-> "continue"]
tryMetadata(pcmData, tryNLsb) ==
    LET totalSamples == Len(pcmData) \div 2
        metaBits == extractBitsFromSamples(pcmData, 0, tryNLsb, metadataSize * 8)
        md       == parseMetadata(bitsToBytesN(metaBits, metadataSize * 8))
    IN IF md.err # "nil" THEN [err |-> "continue"]
       ELSE IF md.fileSize <= 0 \/ md.fileSize > 50 * 1024 * 1024
       THEN [err |-> "continue"]
       ELSE IF samplesNeeded(metadataSize * 8, tryNLsb)
               + samplesNeeded(md.fileSize * 8, tryNLsb) > totalSamples
       THEN [err |-> "continue"]
       ELSE md

RECURSIVE detectFrom(_, _)
\* the detection loop from tryNLsb on: the metadata taken, with the nLsb it
\* was read with, or detectedNLsb 0
detectFrom(pcmData, tryNLsb) ==
    IF tryNLsb > 4 THEN [detectedNLsb |-> 0]
    ELSE LET md == tryMetadata(pcmData, tryNLsb) IN
           IF md.err = "nil"
           THEN [detectedNLsb |-> tryNLsb] @@ md
           ELSE detectFrom(pcmData, tryNLsb + 1)

\* steganographyService.ExtractMessage on an input the MP3 decoder rejects.
\* req: StegoAudio, StegoKey, OutputFilename.
PcmExtractMessage(req) ==
    IF ~(/\ Len(req.StegoAudio) > 44
         /\ Slice(req.StegoAudio, 0, 4) = tagRIFF
         /\ Slice(req.StegoAudio, 8, 12) = tagWAVE)
    THEN pcmExtractFail("unsupported audio format: file must be MP3 or WAV")
    ELSE
      LET h == parseWAVHeader(req.StegoAudio) IN
        IF h.err # "nil" THEN pcmExtractFail("failed to parse WAV header")
        ELSE IF h.dataOffset + h.dataSize > Len(req.StegoAudio)
        THEN pcmExtractFail("invalid WAV file structure")
        ELSE
          LET pcmData      == Slice(req.StegoAudio, h.dataOffset, h.dataOffset + h.dataSize)
              totalSamples == Len(pcmData) \div 2
              d            == detectFrom(pcmData, 1)
              metaSamples    == samplesNeeded(metadataSize * 8, d.detectedNLsb)
              payloadSamples == samplesNeeded(d.fileSize * 8, d.detectedNLsb)
              pos          == generatePayloadStart(req.StegoKey, totalSamples,
                                                   metaSamples, payloadSamples)
              startPos     == IF d.useRandomStart THEN pos ELSE metaSamples
              secretBits   == extractBitsFromSamples(pcmData, startPos, d.detectedNLsb,
                                                     d.fileSize * 8)
              raw          == bitsToBytesN(secretBits, d.fileSize * 8)
              secretData   == IF d.useEncryption /\ req.StegoKey # <<>>
                              THEN VigenereCipher(raw, req.StegoKey, FALSE)
                              ELSE raw
              name         == outputFilenameOf(req.OutputFilename, d.filename, secretData)
          IN
            IF d.detectedNLsb = 0
            THEN pcmExtractFail("failed to auto-detect metadata")
            ELSE IF d.useRandomStart /\ req.StegoKey = <<>>
            THEN pcmExtractFail("stego key is required")
            ELSE IF d.useRandomStart /\ pos < 0
            THEN pcmExtractFail("invalid stego layout")
            ELSE IF -1 \in {name[i] : i \in 1..Len(name)}
            THEN pcmExtractFail("panic: slice bounds out of range")
            ELSE [err |-> "nil", data |-> secretData, filename |-> name,
                  nLsb |-> d.detectedNLsb]

(***************************************************************************)
(* Inputs: covers, secrets, filenames, keys                                *)
(***************************************************************************)
\* frames of the large cover
NumFrames == 4

\* length of the non-empty secret
SecretLen == 2

\* header of an MPEG2 Layer3 frame, 8 kbps at 24000 Hz: 48 bytes
frameHeader == <<255, 243, 20, 0>>

\* payload content at offset i, as createTestMP3Data fills it
payloadByte(i) == (i * 37) % 256

RECURSIVE framesAt(_, _)
\* n back-to-back 48-byte frames, the first one at offset off
framesAt(n, off) ==
    IF n = 0 THEN <<>>
    ELSE frameHeader \o [j \in 1..44 |-> payloadByte(off + 4 + (j - 1))]
         \o framesAt(n - 1, off + 48)

\* 4 bytes: a header and nothing else, no payload byte
TinyCover == frameHeader

\* one frame, 44 payload bytes
CoverSmall == framesAt(1, 0)

\* an ID3v2 block of 10 + 3 bytes, two frames, two junk bytes, the other
\* frames, and a truncated frame header at the end
CoverLarge ==
    <<73, 68, 51, 3, 0, 0, 0, 0, 0, 3, 255, 243, 20>>
    \o framesAt(2, 13)
    \o <<0, 255>>
    \o framesAt(NumFrames - 2, 13 + 96 + 2)
    \o <<255, 243, 20, 0, 9>>

SecretA == [i \in 1..SecretLen |-> (200 + 57 * i) % 256]

SecretOld == <<79, 76, 68>>

Secrets == {<<>>, SecretA}

\* "" and "f"
Filenames == {<<>>, <<102>>}

\* no metadata, and one byte of it
Metas == {<<>>, <<9>>}

Keys == {NoKey, Key1, Key11, Key2}

\* method and NLsb of a request; NLsb is left 0 for parity.  The last four
\* are requests that option validation rejects
MethodChoices ==
    {<<"lsb", 1>>, <<"lsb", 2>>, <<"lsb", 3>>, <<"lsb", 4>>, <<"parity", 0>>,
     <<"lsb", 0>>, <<"lsb", 5>>, <<"", 1>>, <<"invalid", 1>>}

Hints == {"", "lsb", "parity"}

\* the large cover after an earlier embed: it carries an LSB-4 frame at bit 0
CoverUsed ==
    EmbedMessage([CoverAudio |-> CoverLarge, SecretFileName |-> <<111>>,
                  StegoKey |-> NoKey, Method |-> "lsb", NLsb |-> 4,
                  UseEncryption |-> FALSE, UseRandomStart |-> FALSE],
                 SecretOld, <<>>).out

\* a frame of 22 bytes, as many as LSB-1 reads from the large cover: the
\* header of an LSB-1 frame with the given flags and length fields, and tail
\* for the 5 bytes behind it
CraftedFrame(flags, filenameLen, secretLen, tail) ==
    magicBytes \o <<methodLSB, 1, flags>>
    \o BigEndian16(filenameLen) \o BigEndian32(secretLen) \o tail

\* the large cover with frame in the least significant bits of its payload
\* bytes, from bit 0
CraftedCover(frame) ==
    embedLSBLoop(CoverLarge, bytesToBits(frame), 1, 8 * Len(frame), 0,
                 Len(collectPayloadIndices(CoverLarge)), 1,
                 collectPayloadIndices(CoverLarge))

\* containers that no embed has written and that read as a frame with the
\* magic: length fields beyond the buffer, at its end and within it
CraftedCovers ==
    { CraftedCover(CraftedFrame(0, 65535, 0, <<0, 0, 0, 0, 0>>)),
      CraftedCover(CraftedFrame(0, 4, 0, <<97, 98, 99, 100, 0>>)),
      CraftedCover(CraftedFrame(0, 3, 0, <<97, 98, 99, 0, 0>>)),
      CraftedCover(CraftedFrame(0, 2, 0, <<97, 98, 0, 1, 9>>)),
      CraftedCover(CraftedFrame(0, 1, 0, <<97, 255, 255, 1, 2>>)),
      CraftedCover(CraftedFrame(0, 0, 2130706432, <<0, 0, 1, 2, 3>>)),
      CraftedCover(CraftedFrame(0, 0, 4, <<0, 0, 1, 2, 3>>)),
      CraftedCover(CraftedFrame(0, 0, 3, <<0, 0, 1, 2, 3>>)),
      CraftedCover(CraftedFrame(1, 0, 2, <<0, 0, 1, 2, 3>>)) }

\* "not audio"
NotAudio == <<110, 111, 116, 32, 97, 117, 100, 105, 111>>

\* a frame sync whose bitrate index is 0, followed by six bytes
BadBitrate == <<255, 243, 0, 0, 1, 2, 3, 4, 5, 6>>

\* the shortest frame a header can announce: MPEG1 Layer I, 32 kbps at
\* 48000 Hz, 32 bytes
LayerOneFrame == <<255, 255, 20, 0>> \o [j \in 1..28 |-> payloadByte(j)]

\* a frame header and one byte of its frame
OneByteFrame == frameHeader \o <<9>>

\* inputs without a payload byte: the empty input, inputs of up to 4 bytes,
\* and inputs without a valid frame header
InvalidContainers ==
    {<<>>, <<255>>, <<255, 243, 20>>, TinyCover, NotAudio, BadBitrate}

Covers == InvalidContainers \cup {OneByteFrame, CoverSmall, CoverLarge, CoverUsed}

\* 16-bit samples in the data chunk of the WAV covers
WavSamples == 240

\* binary.LittleEndian encoding of a 32-bit value
LittleEndian32(v) ==
    << v % 256, (v \div 256) % 256, (v \div 65536) % 256, (v \div 16777216) % 256 >>

\* a "fmt " chunk: PCM, 2 channels, 8000 Hz, 16 bits
fmtChunk ==
    <<102, 109, 116, 32>> \o LittleEndian32(16)
    \o <<1, 0, 2, 0, 64, 31, 0, 0, 0, 125, 0, 0, 4, 0, 16, 0>>

\* the sample data: sample i has the value i mod 65536, little-endian
sampleData == [j \in 1..(2 * WavSamples) |->
                 IF (j - 1) % 2 = 0 THEN ((j - 1) \div 2) % 256
                                    ELSE (((j - 1) \div 2) \div 256) % 256]

\* the canonical 44-byte header followed by the sample data
WavCover ==
    tagRIFF \o LittleEndian32(36 + 2 * WavSamples) \o tagWAVE \o fmtChunk
    \o tagData \o LittleEndian32(2 * WavSamples) \o sampleData

\* the same with a "LIST" chunk of 3 bytes and its pad byte before the data
WavCoverList ==
    tagRIFF \o LittleEndian32(48 + 2 * WavSamples) \o tagWAVE \o fmtChunk
    \o <<76, 73, 83, 84>> \o LittleEndian32(3) \o <<1, 2, 3, 0>>
    \o tagData \o LittleEndian32(2 * WavSamples) \o sampleData

\* silence but for sample 143, of value 2: read two bits a sample, bits
\* 256..287 of the low bits are the number 1
silenceData == [j \in 1..(2 * WavSamples) |-> IF j = 2 * 143 + 1 THEN 2 ELSE 0]

\* the canonical header followed by the silence
WavCoverSilence ==
    tagRIFF \o LittleEndian32(36 + 2 * WavSamples) \o tagWAVE \o fmtChunk
    \o tagData \o LittleEndian32(2 * WavSamples) \o silenceData

\* a 60-byte WAV whose data chunk announces 24 bytes and holds 16
WavTruncated ==
    tagRIFF \o LittleEndian32(52) \o tagWAVE \o fmtChunk
    \o tagData \o LittleEndian32(24) \o [j \in 1..16 |-> j]

\* a 44-byte WAV whose data chunk announces 8 bytes and holds none
WavHeaderOnly ==
    tagRIFF \o LittleEndian32(36) \o tagWAVE \o fmtChunk
    \o tagData \o LittleEndian32(8)

\* byte strings and keys handed to VigenereCipher: "Hello" and "se" among
\* them
CipherData == {<<>>, <<0>>, <<255, 0, 170>>, <<72, 101, 108, 108, 111>>, SecretA}

CipherKeys == Keys \cup {<<115, 101>>, <<255, 1, 128>>}

\* buffers handed to CalculatePSNR: of 0 to 4 bytes, with the samples 1, 2,
\* 3, 257, -32768 and 32767 among them
PsnrBuffers ==
    {<<>>, <<7>>, <<8>>, <<1, 0>>, <<1, 1>>, <<1, 0, 5>>, <<1, 0, 9>>, <<0, 128>>,
     <<255, 127>>, <<1, 0, 2, 0>>, <<1, 0, 3, 0>>}

\* lengths <<hi, lo>> of a filename, a stored secret or metadata: 0, 10,
\* 65535, 65536, 2^32 - 1 and 2^32
FieldLengths ==
    {<<0, 0>>, <<0, 10>>, <<0, 65535>>, <<1, 0>>, <<65535, 65535>>, <<65536, 0>>}

\* room behind the length of an input buffer, in bytes: none, or more than
\* the data chunks of the inputs announce
SpareCaps == {0, 64}

PcmCovers ==
    {TinyCover, WavCover, WavCoverList, WavCoverSilence, WavTruncated, WavHeaderOnly}

(***************************************************************************)
(* State machine: one embed call, then one extract call on its output      *)
(***************************************************************************)
NoEmbed ==
    [secret |-> <<>>, filename |-> <<>>, meta |-> <<>>, method |-> "", nLsb |-> 0,
     enc |-> FALSE, rnd |-> FALSE, key |-> <<>>, err |-> "none",
     startBit |-> 0, frameBits |-> 0, capacityBits |-> 0, given |-> <<>>]

NoExtract == [key |-> <<>>, hint |-> ""] @@ extractFail("none")

NoPcmExtract == [xkey |-> <<>>, xerr |-> "none", xdata |-> <<>>, xfilename |-> <<>>,
                 xnLsb |-> 0]

NoPcm ==
    [cover |-> <<>>, secret |-> <<>>, filename |-> <<>>, nLsb |-> 0, enc |-> FALSE,
     rnd |-> FALSE, key |-> <<>>, err |-> "none", out |-> <<>>, startPos |-> 0]
    @@ NoPcmExtract

\* no call outside an embed/extract pair has been made
NoProbe == [op |-> "none", input |-> <<>>, res |-> [err |-> "none"]]

Init ==
    /\ pc = "idle"
    /\ carrier = <<>>
    /\ emb = NoEmbed
    /\ audio = <<>>
    /\ writes = <<>>
    /\ ext = NoExtract
    /\ pcm = NoPcm
    /\ probe = NoProbe

Embed ==
    /\ pc = "idle"
    /\ \E c \in Covers, secret \in Secrets, fname \in Filenames, meta \in Metas,
          mk \in MethodChoices, enc \in BOOLEAN, rnd \in BOOLEAN, key \in Keys :
         \E r \in {EmbedMessage([CoverAudio |-> c, SecretFileName |-> fname,
                                 StegoKey |-> key, Method |-> mk[1], NLsb |-> mk[2],
                                 UseEncryption |-> enc, UseRandomStart |-> rnd],
                                secret, meta)} :
            /\ carrier' = callerBufferAfter(c, r)
            /\ emb' = [secret |-> secret, filename |-> fname, meta |-> meta,
                       method |-> mk[1], nLsb |-> mk[2], enc |-> enc, rnd |-> rnd,
                       key |-> key, err |-> r.err, startBit |-> r.startBit,
                       frameBits |-> r.frameBits, capacityBits |-> r.capacityBits,
                       given |-> c]
            /\ audio' = r.out
            /\ writes' = r.writes
    /\ pc' = "embedded"
    /\ UNCHANGED <<ext, pcm, probe>>

\* an ExtractMessage call: on the output of the embed, or on a container
\* that no embed has written
Extract ==
    /\ pc \in {"idle", "embedded"}
    /\ pc = "embedded" => emb.err = "nil"
    /\ \E c \in (IF pc = "embedded" THEN {audio}
                  ELSE InvalidContainers \cup {OneByteFrame} \cup CraftedCovers),
          key \in Keys, hint \in Hints :
         /\ ext' = [key |-> key, hint |-> hint]
                    @@ ExtractMessage([StegoKey |-> key, Method |-> hint], c)
         /\ probe' = IF pc = "embedded" THEN probe
                      ELSE [op |-> "ExtractMessage", input |-> c, key |-> key,
                            hint |-> hint, res |-> ext']
    /\ pc' = IF pc = "embedded" THEN "extracted" ELSE "probed"
    /\ UNCHANGED <<carrier, emb, audio, writes, pcm>>

\* the embed handler on the PCM path: CreateMetadata, then EmbedMessage
PcmEmbed ==
    /\ pc = "idle"
    /\ \E c \in PcmCovers, secret \in Secrets, fname \in Filenames, n \in 1..4,
          enc \in BOOLEAN, rnd \in BOOLEAN, key \in Keys :
         \E r \in {PcmEmbedMessage([CoverAudio |-> c, StegoKey |-> key, NLsb |-> n,
                                    UseEncryption |-> enc, UseRandomStart |-> rnd],
                                   secret,
                                   CreateMetadata(fname, Len(secret), enc, rnd, n))} :
            pcm' = [cover |-> c, secret |-> secret, filename |-> fname, nLsb |-> n,
                    enc |-> enc, rnd |-> rnd, key |-> key, err |-> r.err,
                    out |-> r.out, startPos |-> r.startPos] @@ NoPcmExtract
    /\ pc' = "pcmEmbedded"
    /\ UNCHANGED <<carrier, emb, audio, writes, ext, probe>>

\* the extract handler on the PCM path: on the output of the embed, or on
\* a container that no embed has written
PcmExtract ==
    /\ pc \in {"idle", "pcmEmbedded"}
    /\ pc = "pcmEmbedded" => pcm.err = "nil"
    /\ \E c \in (IF pc = "pcmEmbedded" THEN {pcm.out}
                  ELSE {TinyCover, WavTruncated, WavHeaderOnly}),
          key \in Keys :
         \E r \in {PcmExtractMessage([StegoAudio |-> c, StegoKey |-> key,
                                      OutputFilename |-> <<>>])} :
            /\ pcm' = [pcm EXCEPT !.xkey = key, !.xerr = r.err, !.xdata = r.data,
                                  !.xfilename = r.filename, !.xnLsb = r.nLsb]
            /\ probe' = IF pc = "pcmEmbedded" THEN probe
                         ELSE [op |-> "PcmExtractMessage", input |-> c, key |-> key,
                               res |-> r]
    /\ pc' = IF pc = "pcmEmbedded" THEN "pcmExtracted" ELSE "probed"
    /\ UNCHANGED <<carrier, emb, audio, writes, ext>>

\* a CalculateCapacity call
Capacity ==
    /\ pc = "idle"
    /\ \E c \in Covers \cup {LayerOneFrame} :
         probe' = [op |-> "CalculateCapacity", input |-> c, res |-> CalculateCapacity(c)]
    /\ pc' = "probed"
    /\ UNCHANGED <<carrier, emb, audio, writes, ext, pcm>>

\* a CalculateCapacity call on the PCM path
PcmCapacity ==
    /\ pc = "idle"
    /\ \E c \in PcmCovers, spare \in SpareCaps :
         probe' = [op |-> "PcmCalculateCapacity", input |-> c, spare |-> spare,
                   res |-> PcmCalculateCapacity(c, spare)]
    /\ pc' = "probed"
    /\ UNCHANGED <<carrier, emb, audio, writes, ext, pcm>>

\* VigenereCipher to encrypt, then VigenereCipher on the result to decrypt
Cipher ==
    /\ pc = "idle"
    /\ \E x \in CipherData, key \in CipherKeys :
         \E encrypted \in {VigenereCipher(x, key, TRUE)} :
            probe' = [op |-> "VigenereCipher", input |-> x, key |-> key,
                      res |-> [err |-> "nil", encrypted |-> encrypted,
                               decrypted |-> VigenereCipher(encrypted, key, FALSE)]]
    /\ pc' = "probed"
    /\ UNCHANGED <<carrier, emb, audio, writes, ext, pcm>>

\* a CalculatePSNR call
Psnr ==
    /\ pc = "idle"
    /\ \E original \in PsnrBuffers, modified \in PsnrBuffers :
         probe' = [op |-> "CalculatePSNR", input |-> original, modified |-> modified,
                   res |-> [err |-> "nil"] @@ CalculatePSNR(original, modified)]
    /\ pc' = "probed"
    /\ UNCHANGED <<carrier, emb, audio, writes, ext, pcm>>

\* the length fields EmbedMessage writes for a filename, a stored secret
\* and metadata of the given lengths
FrameLengths ==
    /\ pc = "idle"
    /\ \E fl \in FieldLengths, sl \in FieldLengths, ml \in FieldLengths :
         probe' = [op |-> "frameLengthFields", input |-> <<>>, filenameLen |-> fl,
                   storedLen |-> sl, metadataLen |-> ml,
                   res |-> frameLengthFields(fl, sl, ml)]
    /\ pc' = "probed"
    /\ UNCHANGED <<carrier, emb, audio, writes, ext, pcm>>

Reset ==
    /\ pc \in {"embedded", "extracted", "pcmEmbedded", "pcmExtracted", "probed"}
    /\ pc' = "idle"
    /\ carrier' = <<>>
    /\ emb' = NoEmbed
    /\ audio' = <<>>
    /\ writes' = <<>>
    /\ ext' = NoExtract
    /\ pcm' = NoPcm
    /\ probe' = NoProbe

Next ==
    \/ Embed \/ Extract \/ PcmEmbed \/ PcmExtract
    \/ Capacity \/ PcmCapacity \/ Cipher \/ Psnr \/ FrameLengths
    \/ Reset

Spec == Init /\ [][Next]_vars

TypeOK ==
    /\ pc \in {"idle", "embedded", "extracted", "pcmEmbedded", "pcmExtracted", "probed"}
    /\ pcm.nLsb \in 0..4
    /\ pcm.xnLsb \in 0..4
    /\ emb.err \in {"none", "nil", "ErrInvalidMethod", "ErrInvalidLSB", "ErrInvalidStegoKey",
                    "ErrFileTooLarge", "ErrInvalidMP3", "ErrInsufficientCapacity"}
    /\ ext.err \in {"none", "nil", "ErrInvalidMP3", "ErrExtractionFailed"}

(***************************************************************************)
(* Properties                                                              *)
(***************************************************************************)
\* an embed call has returned without error
EmbedDone == pc = "embedded" /\ emb.err = "nil"

\* the offsets of the payload-index vector of data, as a set
PayloadSet(data) ==
    LET P == collectPayloadIndices(data) IN {P[j] : j \in 1..Len(P)}

\* the options of the embed call pass every check but the capacity check
OptionsValid ==
    /\ MethodIsValid(emb.method)
    /\ (emb.method = "lsb" => emb.nLsb \in 1..4)
    /\ (emb.enc => emb.key # NoKey)
    /\ (emb.rnd => emb.key # NoKey)

\* byte length of the frame of the embed call, field by field: header (17),
\* filename, metadata length (2), metadata, stored payload (the secret, with
\* 4 checksum bytes in front when obfuscated)
FrameBytes ==
    17 + (IF emb.filename = <<>> THEN Len(defaultFilename) ELSE Len(emb.filename))
       + 2 + Len(emb.meta) + Len(emb.secret) + (IF emb.enc THEN 4 ELSE 0)

\* the capacity in bytes CalculateCapacity reports for the method and k of
\* the embed call
ReportedCapacity ==
    LET c == CalculateCapacity(carrier) IN
      IF emb.method = "parity" THEN c.Parity
      ELSE CASE emb.nLsb = 1 -> c.OneLSB
             [] emb.nLsb = 2 -> c.TwoLSB
             [] emb.nLsb = 3 -> c.ThreeLSB
             [] OTHER        -> c.FourLSB

\* C2: after a successful EmbedMessage the output is as long as the cover
\* and equals it at every offset outside the cover's payload-index vector
C2_NonPayloadUntouched ==
    EmbedDone =>
        /\ Len(audio) = Len(carrier)
        /\ LET P == PayloadSet(carrier) IN
             \A i \in 1..Len(carrier) : (i - 1) \notin P => audio[i] = carrier[i]

\* C2 witness: an embed into the cover with an ID3 block, junk between
\* frames and a truncated last frame changed the cover
C2_Witness ==
    /\ EmbedDone
    /\ carrier = CoverLarge
    /\ audio # carrier
    /\ Len(writes) > 0

\* C3: with otherwise valid options on a cover with non-empty P, EmbedMessage
\* fails with ErrInsufficientCapacity exactly when the frame is longer than
\* the capacity CalculateCapacity reports for the method and k, and succeeds
\* otherwise, a frame of exactly that capacity included
C3_CapacityBoundary ==
    (pc = "embedded" /\ OptionsValid /\ PayloadSet(carrier) # {}) =>
        /\ (emb.err = "ErrInsufficientCapacity" <=> FrameBytes > ReportedCapacity)
        /\ (FrameBytes <= ReportedCapacity => emb.err = "nil")

\* C3 witness: a frame of exactly the reported capacity was embedded
C3_Witness ==
    /\ EmbedDone
    /\ OptionsValid
    /\ FrameBytes = ReportedCapacity
    /\ emb.frameBits = emb.capacityBits

\* C10 (as stated): within one embed no byte offset is written twice
C10_ByteWrittenOnce ==
    EmbedDone => Cardinality({writes[i][1] : i \in 1..Len(writes)}) = Len(writes)

\* C10 (amended): within one embed every write goes to a byte of P, no
\* <<byte, slot>> pair is written twice, and the slots are below k (below 1
\* for parity), so that a byte is written at most k times, once for parity
C10_SlotWrittenOnce ==
    EmbedDone =>
        LET k == IF emb.method = "lsb" THEN emb.nLsb ELSE 1
            P == PayloadSet(carrier)
        IN /\ Cardinality({writes[i] : i \in 1..Len(writes)}) = Len(writes)
           /\ \A i \in 1..Len(writes) : writes[i][1] \in P /\ writes[i][2] \in 0..(k - 1)

\* C10 witness: an LSB-4 embed wrote some byte more than once
C10_Witness ==
    /\ EmbedDone
    /\ emb.method = "lsb"
    /\ emb.nLsb = 4
    /\ Cardinality({writes[i][1] : i \in 1..Len(writes)}) < Len(writes)

\* the candidates of the extraction order, <<method, n>>
Candidates ==
    << <<methodLSB, 1>>, <<methodLSB, 2>>, <<methodLSB, 3>>, <<methodLSB, 4>>,
       <<methodParity, 1>> >>

\* the bit stream candidate c reads from data, and its length
candidateBits(data, c) ==
    LET P == collectPayloadIndices(data) IN
      IF c[1] = methodLSB THEN lsbBits(data, P, c[2]) ELSE parityBits(data, P)

candidateTotal(data, c) ==
    Len(collectPayloadIndices(data)) * (IF c[1] = methodLSB THEN c[2] ELSE 1)

\* the ten bytes candidate c reads from data at bit offset start are the
\* magic followed by the method and n of c
magicAt(data, c, start) ==
    LET tot == candidateTotal(data, c)
        raw == bitsToBytesN(rotateBits(candidateBits(data, c), tot, start), tot)
    IN /\ tot >= 80
       /\ \A i \in 0..7 : At(raw, i) = At(magicBytes, i)
       /\ At(raw, 8) = c[1]
       /\ At(raw, 9) = c[2]

\* the place of the embed call's method and k in the extraction order
embCandidate == IF emb.method = "lsb" THEN emb.nLsb ELSE 5

\* some candidate that extraction with key tries before the one at place ci
\* and bit offset start reads a frame magic from data
EarlierMagic(data, key, ci, start) ==
    \/ \E j \in 1..(ci - 1) :
          LET starts == tryStarts(key, candidateTotal(data, Candidates[j])) IN
            \E k \in 1..Len(starts) : magicAt(data, Candidates[j], starts[k])
    \/ start # 0 /\ magicAt(data, Candidates[ci], 0)

\* the filename EmbedMessage stores for the one passed in
StoredName == IF emb.filename = <<>> THEN defaultFilename ELSE emb.filename

\* an extract call with the key of the embed call and no method hint returned
SameKeyExtract == pc = "extracted" /\ ext.key = emb.key /\ ext.hint = ""

\* C1 (as stated): extraction with the same key and no hint returns the
\* secret and the filename passed to embed
C1_RoundTrip ==
    SameKeyExtract =>
        ext.err = "nil" /\ ext.data = emb.secret /\ ext.filename = emb.filename

\* C1 (amended): extraction with the same key and no hint returns the secret
\* and the stored filename (the one passed to embed, "secret.bin" for an
\* empty one), provided no candidate tried before the embed's method, k and
\* start offset reads a frame magic from the output
C1_RoundTripStored ==
    (SameKeyExtract /\ ~EarlierMagic(audio, emb.key, embCandidate, emb.startBit)) =>
        ext.err = "nil" /\ ext.data = emb.secret /\ ext.filename = StoredName

\* C1 witness: an obfuscated secret embedded at a keyed start other than 0
\* with an empty filename came back with the default filename
C1_Witness ==
    /\ SameKeyExtract
    /\ ~EarlierMagic(audio, emb.key, embCandidate, emb.startBit)
    /\ emb.enc /\ emb.rnd /\ emb.startBit # 0
    /\ emb.secret # <<>> /\ emb.filename = <<>>
    /\ ext.err = "nil" /\ ext.data = emb.secret /\ ext.filename = defaultFilename

\* what the candidate of the embed call's method and k, read from the
\* output at the embed call's start offset, gives under the extract key
ReadEmbedded ==
    LET c == Candidates[embCandidate] IN
      tryStart(ext.key, candidateBits(audio, c), candidateTotal(audio, c),
               emb.startBit, c[1], c[2])

\* extraction with the extract key tries the embed call's start offset
TriesEmbedStart ==
    LET starts == tryStarts(ext.key, candidateTotal(audio, Candidates[embCandidate]))
    IN \E k \in 1..Len(starts) : starts[k] = emb.startBit

\* C4 (as stated): when the frame of an obfuscated payload is found where
\* extraction looks and its checksum fails under the supplied key,
\* ExtractMessage fails with ErrInvalidStegoKey, not with the
\* ErrExtractionFailed of a search that found nothing
C4_WrongKeyReported ==
    ( /\ pc = "extracted"
      /\ emb.enc
      /\ ext.key # NoKey
      /\ ext.hint = ""
      /\ TriesEmbedStart
      /\ ReadEmbedded.kind = "return"
      /\ ReadEmbedded.err = "ErrInvalidStegoKey" )
    => ext.err = "ErrInvalidStegoKey"

\* byte i of the repeating keystream of key
keyByte(key, i) == IF key = <<>> THEN 0 ELSE At(key, i % Len(key))

\* the keystreams of the embed key and the extract key differ somewhere over
\* the stored payload, the 4 checksum bytes followed by the secret
KeystreamDiffers ==
    \E i \in 0..(4 + Len(emb.secret) - 1) : keyByte(emb.key, i) # keyByte(ext.key, i)

hintMethod == IF ext.hint = "lsb" THEN methodLSB ELSE methodParity

\* an extract call with the key of the embed call and a valid hint naming
\* the method the embed call did not use
WrongHintExtract ==
    /\ pc = "extracted"
    /\ ext.key = emb.key
    /\ MethodIsValid(ext.hint)
    /\ ext.hint # emb.method

\* some candidate of the hinted method reads a frame magic from the output
\* at an offset extraction tries
HintedMagic ==
    \E j \in 1..Len(Candidates) :
        /\ Candidates[j][1] = hintMethod
        /\ LET starts == tryStarts(ext.key, candidateTotal(audio, Candidates[j])) IN
             \E k \in 1..Len(starts) : magicAt(audio, Candidates[j], starts[k])

KeylessExtract ==
    /\ pc = "extracted"
    /\ emb.rnd /\ emb.key # NoKey /\ ~emb.enc
    /\ ext.key = NoKey

\* some candidate reads a frame magic from data at offset 0
MagicAtZero(data) ==
    \E j \in 1..Len(Candidates) : magicAt(data, Candidates[j], 0)

\* payload bytes a candidate reads for the magic, the method and n at one
\* bit per byte
MagicSpan == 8 * (Len(magicBytes) + 2)

\* the embed call, going by its start bit, frame length and capacity, wrote
\* behind the first MagicSpan payload bytes and did not wrap around
LeavesMagicSpan ==
    LET k == IF emb.method = "lsb" THEN emb.nLsb ELSE 1 IN
      /\ emb.startBit \div k >= MagicSpan
      /\ emb.startBit + emb.frameBits <= emb.capacityBits

\* C7 (as stated): after an embed at a keyed start, extraction with the
\* empty key fails with ErrExtractionFailed
C7_KeylessFails ==
    KeylessExtract => ext.err = "ErrExtractionFailed"

\* C7 (amended): after an embed at a keyed start, extraction with the empty
\* key fails with ErrExtractionFailed unless some candidate reads a frame
\* magic at offset 0 of the output; it does fail when the cover had no such
\* magic and the embed wrote behind the bytes a magic at offset 0 is read
\* from
C7_KeylessFailsOffZero ==
    /\ (KeylessExtract /\ ~MagicAtZero(audio)) => ext.err = "ErrExtractionFailed"
    /\ (KeylessExtract /\ LeavesMagicSpan /\ ~MagicAtZero(carrier))
          => ext.err = "ErrExtractionFailed"

\* C7 witness: the embed wrote behind the first payload bytes of a cover
\* without a frame and extraction with the empty key found nothing
C7_Witness ==
    /\ KeylessExtract
    /\ LeavesMagicSpan
    /\ ~MagicAtZero(carrier)
    /\ ~MagicAtZero(audio)
    /\ ext.hint = ""
    /\ ext.err = "ErrExtractionFailed"

\* an extract call on the PCM path with the key of the embed call returned
PcmSameKeyExtract == pc = "pcmExtracted" /\ pcm.xkey = pcm.key

\* C9 (as stated): an embedded zero-length secret is extracted again, as a
\* zero-length secret with the stored filename, from a frame-coded
\* container (where no candidate tried earlier reads a frame magic) and
\* from a PCM container
C9_EmptySecretRoundTrip ==
    /\ ( /\ SameKeyExtract
         /\ emb.secret = <<>>
         /\ ~EarlierMagic(audio, emb.key, embCandidate, emb.startBit) )
       => (ext.err = "nil" /\ ext.data = <<>> /\ ext.filename = StoredName)
    /\ (PcmSameKeyExtract /\ pcm.secret = <<>>)
       => (pcm.xerr = "nil" /\ pcm.xdata = <<>>)

\* a CalculateCapacity call has returned a result
CapacityDone ==
    pc = "probed" /\ probe.op = "CalculateCapacity" /\ probe.res.err = "nil"

\* the capacities of a result for LSB-1..LSB-4, in this order
lsbCapacities(res) == <<res.OneLSB, res.TwoLSB, res.ThreeLSB, res.FourLSB>>

\* c is the integer part of bits / 8
IsFloorOfEighth(c, bits) == 8 * c <= bits /\ bits < 8 * c + 8

\* C11: for an input with |P| payload bytes CalculateCapacity returns
\* floor(|P| * k / 8) bytes for LSB-k, k = 1..4, and floor(|P| / 8) bytes for
\* parity; the LSB capacity does not decrease with k and the parity capacity
\* equals the LSB-1 capacity
C11_CapacityFormula ==
    CapacityDone =>
        LET n    == Cardinality(PayloadSet(probe.input))
            caps == lsbCapacities(probe.res)
        IN /\ \A k \in 1..4 : IsFloorOfEighth(caps[k], n * k)
           /\ IsFloorOfEighth(probe.res.Parity, n)
           /\ \A k \in 1..3 : caps[k] <= caps[k + 1]
           /\ probe.res.Parity = probe.res.OneLSB

\* C11 witness: a capacity was returned for an input whose payload bit count
\* for LSB-3 is no multiple of 8, so that the division rounds down
C11_Witness ==
    /\ CapacityDone
    /\ (3 * Cardinality(PayloadSet(probe.input))) % 8 # 0
    /\ probe.res.ThreeLSB > 0
    /\ probe.res.OneLSB < probe.res.TwoLSB

\* a call on an input outside an embed/extract pair has returned
ProbeDone(op) == pc = "probed" /\ probe.op = op

\* the options of the embed call pass the checks EmbedMessage makes before
\* it parses the cover: method, k, and the key of an obfuscated payload
PreParseChecksPass ==
    /\ MethodIsValid(emb.method)
    /\ (emb.method = "lsb" => emb.nLsb \in 1..4)
    /\ (emb.enc => emb.key # NoKey)

TruncatedData(input) ==
    LET h == parseWAVHeader(input) IN
      h.err = "nil" /\ h.dataOffset + h.dataSize > Len(input)

\* e is an error value returned to the caller: the call neither succeeded
\* nor panicked
IsErrorValue(e) == e \notin {"none", "nil", "panic: slice bounds out of range"}

\* C13 (as stated): on a RIFF/WAVE input whose data chunk announces more
\* bytes than remain in the file, capacity calculation, embed and extract on
\* the PCM path each return an error value, and none slices past the end of
\* the input
C13_TruncatedDataRejected ==
    /\ (ProbeDone("PcmCalculateCapacity") /\ TruncatedData(probe.input))
          => IsErrorValue(probe.res.err)
    /\ (ProbeDone("PcmExtractMessage") /\ TruncatedData(probe.input))
          => IsErrorValue(probe.res.err)
    /\ (pc = "pcmEmbedded" /\ TruncatedData(pcm.cover)) => IsErrorValue(pcm.err)

\* the errors of the option checks of EmbedMessage
OptionErrors == {"ErrInvalidMethod", "ErrInvalidLSB", "ErrInvalidStegoKey"}

\* C14: EmbedMessage checks its options first, whatever the cover: a method
\* other than lsb and parity fails with ErrInvalidMethod; else the LSB
\* method with k outside 1..4 fails with ErrInvalidLSB; else obfuscation
\* with an empty key fails with ErrInvalidStegoKey; and a call that fails
\* with one of these returns no output and writes nothing
C14_OptionsCheckedFirst ==
    pc = "embedded" =>
        LET badMethod == emb.method \notin {"lsb", "parity"}
            badK      == emb.method = "lsb" /\ emb.nLsb \notin 1..4
            noEncKey  == emb.enc /\ emb.key = <<>>
        IN /\ (badMethod => emb.err = "ErrInvalidMethod")
           /\ (~badMethod /\ badK => emb.err = "ErrInvalidLSB")
           /\ (~badMethod /\ ~badK /\ noEncKey => emb.err = "ErrInvalidStegoKey")
           /\ (emb.err \in OptionErrors => audio = <<>> /\ writes = <<>>)

\* C14 witness: an obfuscated embed with an empty key into an input that is
\* no container failed with ErrInvalidStegoKey and returned nothing
C14_Witness ==
    /\ pc = "embedded"
    /\ emb.method = "lsb" /\ emb.nLsb = 1
    /\ emb.enc /\ emb.key = <<>>
    /\ carrier = NotAudio
    /\ emb.err = "ErrInvalidStegoKey"
    /\ audio = <<>>

\* an embed call with keyed start and an empty key whose options pass the
\* other checks
KeylessStartEmbed ==
    /\ pc = "embedded"
    /\ PreParseChecksPass
    /\ emb.rnd /\ emb.key = <<>>

\* C15 (as stated): an embed request with keyed start and an empty key
\* fails with ErrInvalidStegoKey for every cover and secret, never with
\* ErrInvalidMP3 or ErrInsufficientCapacity
C15_KeylessStartRejectedFirst ==
    KeylessStartEmbed => emb.err = "ErrInvalidStegoKey"

\* c is the bitwise exclusive or of the bytes a and b
IsXorOf(c, a, b) ==
    /\ c \in 0..255
    /\ \A slot \in 0..7 : (BitAt(c, slot) = 1) <=> (BitAt(a, slot) # BitAt(b, slot))

\* C16: VigenereCipher applied twice with the same key returns the data;
\* byte i of its output is byte i of the data XOR byte i mod |key| of the
\* key; with the empty key the data comes back unchanged
C16_XorInvolution ==
    ProbeDone("VigenereCipher") =>
        LET x == probe.input
            k == probe.key
            y == probe.res.encrypted
        IN /\ probe.res.decrypted = x
           /\ Len(y) = Len(x)
           /\ k # <<>> => \A i \in 0..(Len(x) - 1) :
                              IsXorOf(At(y, i), At(x, i), At(k, i % Len(k)))
           /\ k = <<>> => y = x

\* C16 witness: data longer than a key of several bytes was changed by the
\* first application and restored by the second
C16_Witness ==
    /\ ProbeDone("VigenereCipher")
    /\ Len(probe.key) > 1
    /\ Len(probe.input) > Len(probe.key)
    /\ probe.res.encrypted # probe.input
    /\ probe.res.decrypted = probe.input

\* the two buffers of the CalculatePSNR call agree on every complete 16-bit
\* sample, so that no squared difference is above 0
SamplesEqual ==
    \A i \in 0..(2 * (Len(probe.input) \div 2) - 1) :
        At(probe.input, i) = At(probe.modified, i)

\* C17 (as stated): CalculatePSNR returns +Inf for equal-length buffers
\* whose mean squared error is 0, byte-identical buffers of any length among
\* them, and 0 for buffers of different lengths
C17_PsnrInfOrZero ==
    ProbeDone("CalculatePSNR") =>
        /\ (Len(probe.input) # Len(probe.modified) => probe.res.kind = "zero")
        /\ (Len(probe.input) = Len(probe.modified) /\ SamplesEqual
               => probe.res.kind = "inf")

\* C17 (amended): CalculatePSNR returns 0 for buffers of different lengths
\* and for equal-length buffers shorter than one sample (2 bytes), and +Inf
\* for equal-length buffers of at least one sample that agree on every
\* complete sample
C17_PsnrInfFromOneSample ==
    ProbeDone("CalculatePSNR") =>
        /\ (Len(probe.input) # Len(probe.modified) => probe.res.kind = "zero")
        /\ (Len(probe.input) = Len(probe.modified) /\ Len(probe.input) < 2
               => probe.res.kind = "zero")
        /\ (Len(probe.input) = Len(probe.modified) /\ Len(probe.input) >= 2
               /\ SamplesEqual => probe.res.kind = "inf")

\* C17 witness: two buffers of 3 bytes that differ in the last byte only,
\* which belongs to no sample, gave +Inf
C17_Witness ==
    /\ ProbeDone("CalculatePSNR")
    /\ Len(probe.input) = 3 /\ Len(probe.modified) = 3
    /\ probe.input # probe.modified
    /\ SamplesEqual
    /\ probe.res.kind = "inf"

\* the tries of an extraction without a method hint, in the order of the
\* loops: <<place in Candidates, start offset>>
TryOrder(data, key) ==
    LET startsOf(ci) == tryStarts(key, candidateTotal(data, Candidates[ci]))
        RECURSIVE from(_)
        from(ci) ==
            IF ci > Len(Candidates) THEN <<>>
            ELSE [k \in 1..Len(startsOf(ci)) |-> <<ci, startsOf(ci)[k]>>] \o from(ci + 1)
    IN from(1)

\* what the try t = <<place, start>> gives on data under key
tryOf(data, key, t) ==
    LET c == Candidates[t[1]] IN
      tryStart(key, candidateBits(data, c), candidateTotal(data, c), t[2], c[1], c[2])

\* the try t is accepted: its frame parses with the magic, consistent
\* lengths and the method and n of the candidate
AcceptedTry(data, key, t) == tryOf(data, key, t).kind = "return"

\* an extract call without a method hint returned
NoHintExtract == pc = "extracted" /\ ext.hint = ""

\* C18 (as stated): without a method hint the candidates are tried in the
\* order (LSB,1), (LSB,2), (LSB,3), (LSB,4), (parity,1), each at start 0 and
\* then at the keyed start, and ExtractMessage returns the result of the
\* first accepted try, ErrExtractionFailed when none is accepted
C18_FirstAcceptedWins ==
    NoHintExtract =>
        LET tries == TryOrder(audio, ext.key)
            acc   == {i \in 1..Len(tries) : AcceptedTry(audio, ext.key, tries[i])}
        IN IF acc = {} THEN ext.err = "ErrExtractionFailed"
           ELSE
             LET first == CHOOSE i \in acc : \A j \in acc : i <= j
                 r     == tryOf(audio, ext.key, tries[first])
             IN /\ ext.err = r.err
                /\ ext.data = r.data
                /\ ext.filename = r.filename

\* without a method hint ExtractMessage returns the result of the first try
\* in the order of C18 that returns a secret: the reading of "accepted"
\* that counts a failed checksum as a reject
C18_FirstSuccessWins ==
    NoHintExtract =>
        LET tries == TryOrder(audio, ext.key)
            good  == {i \in 1..Len(tries) :
                        /\ AcceptedTry(audio, ext.key, tries[i])
                        /\ tryOf(audio, ext.key, tries[i]).err = "nil"}
        IN IF good = {} THEN ext.err = "ErrExtractionFailed"
           ELSE
             LET first == CHOOSE i \in good : \A j \in good : i <= j
                 r     == tryOf(audio, ext.key, tries[first])
             IN /\ ext.err = "nil"
                /\ ext.data = r.data
                /\ ext.filename = r.filename
                /\ <<ext.method, ext.n, ext.start>> = <<r.method, r.n, r.start>>

\* the bit offset in the stream of capacity bits that a write <<byte offset,
\* slot>> of an embed with k slots per byte stands for, P being the payload
\* indices of the cover
BitOffsetOfWrite(P, k, w) ==
    k * (CHOOSE t \in 0..(Len(P) - 1) : At(P, t) = w[1]) + w[2]

\* C19: within one embed the frame is no longer than the capacity C, frame
\* bit j is written at bit offset (start + j) mod C, in the order of j, and
\* no bit offset is written twice, a frame of exactly C bits included
C19_WritesInOrderNoOverwrite ==
    EmbedDone =>
        LET k   == IF emb.method = "lsb" THEN emb.nLsb ELSE 1
            C   == emb.capacityBits
            P   == collectPayloadIndices(carrier)
            off == [i \in 1..Len(writes) |-> BitOffsetOfWrite(P, k, writes[i])]
        IN /\ emb.frameBits <= C
           /\ Len(writes) = emb.frameBits
           /\ \A j \in 0..(emb.frameBits - 1) : off[j + 1] = (emb.startBit + j) % C
           /\ Cardinality({off[i] : i \in 1..Len(writes)}) = Len(writes)

\* C19 witness: a frame of exactly C bits was written from a keyed start
\* other than 0, wrapping around to offset 0
C19_Witness ==
    /\ EmbedDone
    /\ emb.rnd /\ emb.startBit > 0
    /\ emb.frameBits = emb.capacityBits
    /\ Len(writes) = emb.capacityBits
    /\ writes[1] # writes[Len(writes)]

\* the request of the embed call
embReq ==
    [CoverAudio |-> carrier, SecretFileName |-> emb.filename, StegoKey |-> emb.key,
     Method |-> emb.method, NLsb |-> emb.nLsb, UseEncryption |-> emb.enc,
     UseRandomStart |-> emb.rnd]

\* C20: after an LSB-k embed, frame bit j is in slot ((start + j) mod C) mod k
\* of the payload byte number ((start + j) mod C) div k of P; bits k..7 of
\* every payload byte and the slots at bit offsets outside the written
\* range are as in the cover
C20_LsbTouchesLowBitsOnly ==
    (EmbedDone /\ emb.method = "lsb") =>
        LET k    == emb.nLsb
            C    == emb.capacityBits
            P    == collectPayloadIndices(carrier)
            bits == bytesToBits(buildFrame(embReq, emb.secret, emb.meta))
            isWritten(b) == ((b - emb.startBit + C) % C) < emb.frameBits
        IN /\ Len(bits) = emb.frameBits
           /\ \A j \in 0..(emb.frameBits - 1) :
                 LET b == (emb.startBit + j) % C IN
                   BitAt(At(audio, At(P, b \div k)), b % k) = bits[j + 1]
           /\ \A t \in 0..(Len(P) - 1), slot \in 0..7 :
                 (slot >= k \/ ~isWritten(t * k + slot)) =>
                     BitAt(At(audio, At(P, t)), slot) = BitAt(At(carrier, At(P, t)), slot)

\* C20 witness: an LSB-3 embed from a keyed start other than 0 that left
\* part of the capacity unwritten changed slot 2 of some payload byte
C20_Witness ==
    /\ EmbedDone
    /\ emb.method = "lsb" /\ emb.nLsb = 3
    /\ emb.rnd /\ emb.startBit > 0
    /\ emb.frameBits < emb.capacityBits
    /\ \E i \in 1..Len(carrier) : BitAt(audio[i], 2) # BitAt(carrier[i], 2)

\* the bits of the frame the embed call wrote
embFrameBits == bytesToBits(buildFrame(embReq, emb.secret, emb.meta))

\* C21: after a parity embed, the payload byte that took frame bit j equals
\* the cover's byte in bits 1..7, is unchanged when the parity of the
\* cover's byte was the bit already, has bit 0 flipped otherwise, and has
\* the parity of the bit
C21_ParityFlipsLowBitOnly ==
    (EmbedDone /\ emb.method = "parity") =>
        LET C == emb.capacityBits
            P == collectPayloadIndices(carrier)
            bits == embFrameBits
        IN /\ Len(bits) = emb.frameBits
           /\ \A j \in 0..(emb.frameBits - 1) :
                 LET off == At(P, (emb.startBit + j) % C)
                     old == At(carrier, off)
                     new == At(audio, off)
                 IN /\ new \div 2 = old \div 2
                    /\ (extractParityBit(old) = bits[j + 1] => new = old)
                    /\ (extractParityBit(old) # bits[j + 1] => BitAt(new, 0) # BitAt(old, 0))
                    /\ extractParityBit(new) = bits[j + 1]

\* C21 witness: a parity embed from a keyed start other than 0 flipped bit
\* 0 of one written payload byte and left another written byte as it was
C21_Witness ==
    /\ EmbedDone
    /\ emb.method = "parity"
    /\ emb.rnd /\ emb.startBit > 0
    /\ \E i, j \in 1..Len(writes) :
          /\ At(audio, writes[i][1]) # At(carrier, writes[i][1])
          /\ At(audio, writes[j][1]) = At(carrier, writes[j][1])

\* the bytes the output carries at the slots the embed call wrote, in the
\* order of the writes
WrittenBytes ==
    bitsToBytes([j \in 1..Len(writes) |->
        IF emb.method = "lsb"
        THEN BitAt(At(audio, writes[j][1]), writes[j][2])
        ELSE extractParityBit(At(audio, writes[j][1]))])

\* the frame of the embed call as C22 lays it out, with fname for the
\* filename field
FrameLayout(fname) ==
    LET payload == IF emb.enc
                   THEN [i \in 1..(4 + Len(emb.secret)) |->
                           XorByte((calculateChecksum(emb.secret) \o emb.secret)[i],
                                   emb.key[((i - 1) % Len(emb.key)) + 1])]
                   ELSE emb.secret
        be16(n) == << n \div 256, n % 256 >>
    IN  << 65, 83, 84, 69, 71, 118, 50, 0 >>
     \o << IF emb.method = "lsb" THEN 0 ELSE 1 >>
     \o << IF emb.method = "lsb" THEN emb.nLsb ELSE 1 >>
     \o << (IF emb.enc THEN 1 ELSE 0) + (IF emb.rnd THEN 2 ELSE 0) >>
     \o be16(Len(fname))
     \o << 0, 0 >> \o be16(Len(payload))
     \o fname
     \o be16(Len(emb.meta))
     \o emb.meta
     \o payload

\* C22 (as stated): the bytes EmbedMessage writes into the carrier are the
\* magic, method, k, flags, filename length, stored length, the filename as
\* given, metadata length, metadata and the stored payload
C22_FrameAsGiven ==
    EmbedDone => WrittenBytes = FrameLayout(emb.filename)

\* C22 (amended): the same, with "secret.bin" in the filename field and its
\* length when the filename given is empty
C22_FrameStoredName ==
    EmbedDone => WrittenBytes = FrameLayout(StoredName)

\* C22 witness: an LSB-2 embed of a secret with obfuscation, a keyed start,
\* a filename and metadata wrote its frame
C22_Witness ==
    /\ EmbedDone
    /\ emb.method = "lsb" /\ emb.nLsb = 2 /\ emb.enc /\ emb.rnd
    /\ emb.secret # <<>>
    /\ emb.filename # <<>> /\ emb.meta # <<>>
    /\ WrittenBytes = FrameLayout(emb.filename)

\* what the try of LSB-1 at start 0 finds in the input of the ExtractMessage
\* call: the bytes read and the length fields of their header
ProbeRaw ==
    LET c == Candidates[1] IN
      bitsToBytesN(candidateBits(probe.input, c), candidateTotal(probe.input, c))

\* the length 17 + fname_len + 2 + meta_len + secret_len that the header of
\* ProbeRaw asks for, its meta_len taken as 0 where the field is not within
\* the buffer
ProbeNeeds ==
    LET filenameLen == Uint16At(ProbeRaw, 11)
        metaLenOff  == 17 + filenameLen
        metadataLen == IF metaLenOff + 2 <= Len(ProbeRaw)
                       THEN Uint16At(ProbeRaw, metaLenOff) ELSE 0
    IN 17 + filenameLen + 2 + metadataLen + Uint32At(ProbeRaw, 13)

\* an ExtractMessage call without a method hint returned on a container
\* that reads as an LSB-1 frame with the magic at start 0
CraftedExtract ==
    /\ ProbeDone("ExtractMessage")
    /\ probe.hint = ""
    /\ magicAt(probe.input, Candidates[1], 0)

\* C23: ExtractMessage ends with a result or an error value on every
\* container, never with a slice outside the bytes read; on a container
\* that reads as a frame with the magic it returns that frame's payload
\* only if the bytes read are at least 17 + fname_len + 2 + meta_len +
\* secret_len, and rejects the frame otherwise
C23_ParseStaysInBounds ==
    /\ (pc \in {"extracted", "probed"} => ext.err # "panic")
    /\ (CraftedExtract /\ Len(ProbeRaw) < ProbeNeeds) =>
           probe.res.err \in {"ErrExtractionFailed", "ErrInvalidStegoKey"}
    /\ (CraftedExtract /\ probe.res.err = "nil") => Len(ProbeRaw) >= ProbeNeeds

\* C23 witness: a frame whose secret_len is one more than the bytes read
\* hold was rejected
C23_Witness ==
    /\ CraftedExtract
    /\ Len(ProbeRaw) + 1 = ProbeNeeds
    /\ probe.res.err = "ErrExtractionFailed"

\* C24: the output of an embed has the payload indices of its cover
C24_PayloadIndicesStable ==
    EmbedDone => collectPayloadIndices(audio) = collectPayloadIndices(carrier)

\* C24 witness: an LSB-4 embed changed bit 3 of a payload byte of the cover
\* with the ID3 block, the junk and the truncated frame, and the payload
\* indices of the output are those of the cover
C24_Witness ==
    /\ EmbedDone
    /\ carrier = CoverLarge
    /\ emb.method = "lsb" /\ emb.nLsb = 4
    /\ \E i \in 1..Len(carrier) : BitAt(audio[i], 3) # BitAt(carrier[i], 3)
    /\ collectPayloadIndices(audio) = collectPayloadIndices(CoverLarge)
    /\ Len(collectPayloadIndices(audio)) > 0

\* the header at offset i of data is one the scan accepts
AcceptableHeader(data, i) ==
    isFrameSyncAt(data, i) /\ parseMP3FrameSize(data, i) > 4

\* the length of the leading ID3 block of data, 0 without one
LeadingID3(data) ==
    IF Len(data) >= 10 /\ At(data, 0) = 73 /\ At(data, 1) = 68 /\ At(data, 2) = 51
    THEN 10 + (At(data, 6) % 128) * 2097152 + (At(data, 7) % 128) * 16384
            + (At(data, 8) % 128) * 128 + (At(data, 9) % 128)
    ELSE 0

\* C25: the payload indices of a container are strictly increasing offsets
\* into it; they are the offsets f+4 .. f+size-1 of frames f behind the ID3
\* block with an acceptable header, one frame behind the other, and every
\* offset the scan stands on outside these frames has no acceptable header;
\* no header byte of such a frame is among them
C25_PayloadIndicesAreFrames ==
    ProbeDone("CalculateCapacity") =>
        LET data   == probe.input
            P      == collectPayloadIndices(data)
            PS     == {P[t] : t \in 1..Len(P)}
            F      == {p - 4 : p \in {q \in PS : q - 1 \notin PS}}
            sz(f)  == parseMP3FrameSize(data, f)
            inFrame(i) == \E f \in F : f <= i /\ i < f + sz(f)
        IN /\ \A t \in 1..(Len(P) - 1) : P[t] < P[t + 1]
           /\ \A p \in PS : LeadingID3(data) <= p /\ p < Len(data)
           /\ \A f \in F : /\ f >= LeadingID3(data)
                            /\ AcceptableHeader(data, f)
                            /\ \A h \in f..(f + 3) : h \notin PS
           /\ PS = UNION {(f + 4)..(f + sz(f) - 1) : f \in F}
           /\ \A i \in LeadingID3(data)..(Len(data) - 5) :
                 ~inFrame(i) => ~AcceptableHeader(data, i)

\* C25 witness: the payload indices of the cover with a 13-byte ID3 block,
\* two frames, junk that looks like a frame sync, two more frames and a
\* truncated header are those of its four frames
C25_Witness ==
    /\ ProbeDone("CalculateCapacity")
    /\ probe.input = CoverLarge
    /\ isFrameSyncAt(CoverLarge, 110) /\ ~AcceptableHeader(CoverLarge, 110)
    /\ LET P == collectPayloadIndices(probe.input) IN
         /\ Len(P) = 4 * 44
         /\ P[1] = 17 /\ P[45] = 65 /\ P[89] = 115 /\ P[Len(P)] = 206

\* C26 (as stated): frame building fails with ErrFileTooLarge for a filename
\* or metadata of more than 65535 bytes and for a stored secret of more
\* than 2^32 - 1 bytes, so that every length field written holds the length
C26_OversizedRejected ==
    ProbeDone("frameLengthFields") =>
        /\ (probe.filenameLen[1] > 0 => probe.res.err = "ErrFileTooLarge")
        /\ (probe.metadataLen[1] > 0 => probe.res.err = "ErrFileTooLarge")
        /\ (probe.storedLen[1] > 65535 => probe.res.err = "ErrFileTooLarge")
        /\ (probe.res.err = "nil" =>
               /\ <<0, probe.res.filenameLenField>> = probe.filenameLen
               /\ probe.res.secretLenField = probe.storedLen
               /\ <<0, probe.res.metadataLenField>> = probe.metadataLen)

\* room for the rest of the longest frame
FrameRoom == [j \in 1..1800 |-> 0]

\* a buffer with the header <<255, b1, b2, 0>> and room for the longest frame
HeaderWithRoom(b1, b2) == <<255, b1, b2, 0>> \o FrameRoom

\* C27: the five capacities of a CalculateCapacity result are positive and
\* those of LSB-1..LSB-4 strictly increase; no header announces a frame of
\* 5 to 31 bytes, so that a container with a payload byte has at least 28
C27_CapacitiesPositive ==
    CapacityDone =>
        LET caps == lsbCapacities(probe.res) IN
          /\ \A k \in 1..4 : caps[k] > 0
          /\ probe.res.Parity > 0
          /\ \A k \in 1..3 : caps[k] < caps[k + 1]
          /\ Cardinality(PayloadSet(probe.input)) >= 28
          /\ \A b1 \in 224..255, b2 \in 0..255 :
                LET size == parseMP3FrameSize(HeaderWithRoom(b1, b2), 0) IN
                  size = 0 \/ size >= 32

\* C27 witness: the capacities of a container of one 32-byte frame, the
\* shortest there is, are 3, 7, 10, 14 and 3 bytes
C27_Witness ==
    /\ CapacityDone
    /\ probe.input = LayerOneFrame
    /\ lsbCapacities(probe.res) = <<3, 7, 10, 14>>
    /\ probe.res.Parity = 3

\* the square of d, |d| <= 65535, as <<hi, lo>> with value hi * 65536 + lo
TrueSquare(d) ==
    LET a    == IF d < 0 THEN -d ELSE d
        h    == a \div 256
        l    == a % 256
        rest == 512 * h * l + l * l
    IN <<h * h + rest \div 65536, rest % 65536>>

RECURSIVE TrueSquaredSum(_, _, _)
\* the sum over the samples from byte offset i of the squares of the
\* differences of the signed sample values, as <<hi, lo>>
TrueSquaredSum(original, modified, i) ==
    IF i + 1 >= Len(original) THEN <<0, 0>>
    ELSE
      LET sq   == TrueSquare(Int16LEAt(original, i) - Int16LEAt(modified, i))
          tail == TrueSquaredSum(original, modified, i + 2)
          lo   == sq[2] + tail[2]
      IN <<sq[1] + tail[1] + lo \div 65536, lo % 65536>>

\* C28: for two buffers of one length with a sample in them the sum behind
\* the mean squared error of CalculatePSNR is the sum of the squares of the
\* true differences of the samples, and no trailing byte is left out of it
C28_TrueSquaredSum ==
    (/\ ProbeDone("CalculatePSNR")
     /\ Len(probe.input) = Len(probe.modified)
     /\ probe.res.sampleCount > 0)
    => /\ <<probe.res.sumSq \div 65536, probe.res.sumSq % 65536>>
            = TrueSquaredSum(probe.input, probe.modified, 0)
       /\ 2 * probe.res.sampleCount = Len(probe.input)

\* C28, the part that holds: the sum is that of the true squares when no
\* two samples compared differ by more than 32767, over the whole samples
C28_SumWithoutWrap ==
    (/\ ProbeDone("CalculatePSNR")
     /\ Len(probe.input) = Len(probe.modified)
     /\ probe.res.sampleCount > 0
     /\ \A j \in 0..(probe.res.sampleCount - 1) :
           LET d == Int16LEAt(probe.input, 2 * j) - Int16LEAt(probe.modified, 2 * j)
           IN d \in -32768..32767)
    => <<probe.res.sumSq \div 65536, probe.res.sumSq % 65536>>
          = TrueSquaredSum(probe.input, probe.modified, 0)

C30_DetectsEmbedNLsb ==
    (/\ PcmSameKeyExtract
     /\ pcm.secret # <<>>
     /\ ~(pcm.rnd /\ pcm.key = NoKey))
    => /\ pcm.xerr = "nil"
       /\ pcm.xnLsb = pcm.nLsb
       /\ pcm.xdata = pcm.secret

=============================================================================
